---- MODULE Spec2Model ----
(***************************************************************************)
(* Client-side model of the OASIS A2A protocol demos: the session clients  *)
(* (A2AIntegratedClient, OASISClient, SERVDiscoveryDemo) and the two       *)
(* payment workflow drivers (main of a2a_integrated_payment_demo.py and of *)
(* a2a_solana_payment_demo.py).  The remote services are opaque: every     *)
(* remote call draws its response from a small set of response shapes.     *)
(***************************************************************************)
EXTENDS Integers, Sequences, FiniteSets, TLC

VARIABLES
    wf,                 \* which script runs: "integrated", "solana", or a client class under test
    pc,                 \* position of main (the step about to run, or where it stopped)
    exitCode,           \* -1 while running, 0 after a normal return of main, 1 after sys.exit(1)
    sess,               \* actor -> session fields (token, avatar_id, username, wallet_address)
    trace,              \* what the process did so far: invocations, requests, sleeps, prints, returns
    discovered_agents,  \* local of the integrated main
    agent_a_card,       \* local of the integrated main
    message_id,         \* local of the integrated main
    tx_hash,            \* local of the integrated main
    funding_success,    \* local of the solana main
    payment_result,     \* local of the solana main
    listAt,             \* registry: number of the first findByService query that lists Agent A (3: later)
    nops,               \* client harness: number of methods invoked so far
    given,              \* what the run is given: environment variables, the remote's answers
    openserv_agent_id,  \* field of the OpenSERVWorkflowDemo object
    last                \* outcome of the latest method invocation (session after, value returned, events)

vars == <<wf, pc, exitCode, sess, trace, discovered_agents, agent_a_card,
          message_id, tx_hash, funding_success, payment_result, listAt, nops, given,
          openserv_agent_id, last>>

-----------------------------------------------------------------------------
(* JSON / Python values, tagged so that values of different types compare.  *)

Null == [t |-> "null"]
JBool(b) == [t |-> "bool", b |-> b]
JStr(s) == [t |-> "str", s |-> s]
JNum(n) == [t |-> "num", n |-> n]
JObj(f) == [t |-> "obj", o |-> f]
JList(q) == [t |-> "list", l |-> q]
EmptyObj == JObj(<<>>)
EmptyList == JList(<<>>)
\* the error envelope {"isError": true, "message": msg}
OkErr(msg) == JObj([isError |-> JBool(TRUE), message |-> JStr(msg)])
\* the value of an expression whose evaluation raises
Raise == [t |-> "raise"]

\* Python truthiness (`if x`, `not x`, `x or y`)
Truthy(v) ==
    CASE v.t = "null" -> FALSE
      [] v.t = "bool" -> v.b
      [] v.t = "str"  -> v.s # ""
      [] v.t = "num"  -> v.n # 0
      [] v.t = "obj"  -> DOMAIN v.o # {}
      [] v.t = "list" -> v.l # <<>>
      [] OTHER        -> FALSE

\* Python `a or b`
PyOr(a, b) ==
    IF a.t = "raise" THEN Raise ELSE IF Truthy(a) THEN a ELSE b

\* Python `v.get(k, d)`; raises when v is not a dict
Get(v, k, d) ==
    IF v.t = "obj" THEN (IF k \in DOMAIN v.o THEN v.o[k] ELSE d) ELSE Raise

\* Python `v.get(k)`
Get1(v, k) == Get(v, k, Null)

\* Python `isinstance(v, dict)` and `isinstance(v, list)`
IsDict(v) == v.t = "obj"
IsList(v) == v.t = "list"

-----------------------------------------------------------------------------
(* Sessions and actors.                                                     *)

Actors == {"A", "B", "admin"}

\* the state __init__ leaves
NewSession == [token |-> Null, avatar_id |-> Null, username |-> Null, wallet_address |-> Null]

\* identifiers and wallet addresses the remote services assign to each actor
IdOf(a) == JStr("id-" \o a)
WalletOf(a) == JStr("wallet-" \o a)
JWT == JStr("jwt")

ADMIN_WALLET_ADDRESS == JStr("wallet-admin")
ADMIN_USERNAME == JStr("OASIS_ADMIN")
UsernameOf(a) == IF a = "admin" THEN ADMIN_USERNAME ELSE JStr("user-" \o a)

-----------------------------------------------------------------------------
(* Amounts.  amount_sol is a Python float; the model writes it as sol whole *)
(* SOL plus tenths tenths of a lamport, so that an amount can fall between  *)
(* two lamports.                                                            *)

LAMPORTS_PER_SOL == 1000000000
SOL(sol, tenths) == [sol |-> sol, tenths |-> tenths]
FUNDING_AMOUNT_SOL == SOL(0, 500000000)
PAYMENT_AMOUNT_SOL == SOL(0, 100000000)

\* variant of the conversion that keeps only the lamports below one SOL
ToLamports_Wrapped(amount_sol) == (amount_sol.tenths \div 10) % LAMPORTS_PER_SOL

\* int(amount_sol * LAMPORTS_PER_SOL): int() drops the fraction of a lamport
ToLamports(amount_sol) == amount_sol.sol * LAMPORTS_PER_SOL + amount_sol.tenths \div 10

-----------------------------------------------------------------------------
(* The trace of a run.                                                      *)

\* n is the amount an event carries: null, except where a transfer is entered
\* (the amount in SOL) and where it is submitted (the amount in lamports)
Ev(ev, op, by, x, y) == [ev |-> ev, op |-> op, by |-> by, x |-> x, y |-> y, n |-> Null]
Carrying(e, n) == [e EXCEPT !.n = n]
\* positions of trace whose event is of kind ev and names op
At(tr, ev, op) == {i \in 1..Len(tr) : tr[i].ev = ev /\ tr[i].op = op}
\* a method is entered
Invoke(op, by) == Ev("invoke", op, by, Null, Null)
\* a method is entered with the arguments x and y
InvokeWith(op, by, x, y) == Ev("invoke", op, by, x, y)
\* an HTTP request (or curl subprocess) is issued to endpoint op
Req(op, by, x, y) == Ev("req", op, by, x, y)
\* a line is printed
Log(op, by) == Ev("log", op, by, Null, Null)
\* time.sleep(secs)
Sleep(secs) == Ev("sleep", "sleep", "main", JNum(secs), Null)

\* what a method invocation yields: the session afterwards, the value returned,
\* the events it appended, and whether an exception escaped from it
Out(s, ret, ev) == [s |-> s, ret |-> ret, ev |-> ev, raised |-> FALSE]
Raised(s, ev) == [s |-> s, ret |-> Raise, ev |-> ev, raised |-> TRUE]
\* the outcome o of an invocation as main or a test harness sees it, with the
\* session the method was invoked on (pre) and the response it received (r)
Seen(o, pre, r) ==
    [s |-> o.s, ret |-> o.ret, ev |-> o.ev, raised |-> o.raised, pre |-> pre, r |-> r]
\* the response that decided a register_avatar outcome o: the fallback's answer r
\* when the POST was issued a second time, curl's output c otherwise
Decisive(o, c, r) == IF Cardinality(At(o.ev, "req", "avatar/register")) = 2 THEN r ELSE c
\* before any method was invoked
NoCall == Seen(Out(NewSession, Null, <<>>), NewSession, Null)

-----------------------------------------------------------------------------
(* Remote responses.                                                        *)

\* a body that is not JSON: response.json() / json.loads raises
Invalid == [t |-> "invalid"]
\* no response at all: requests.* raises (timeout, connection error)
NoResponse == [t |-> "exc"]
\* empty stdout of curl
EmptyOut == [t |-> "empty"]

Resp(status, body) == [status |-> status, body |-> body]
Timeout == Resp(0, NoResponse)

\* response.json() succeeds
HasJson(r) == r.body.t \notin {"invalid", "exc", "empty"}

-----------------------------------------------------------------------------
(* The wall clock.  time.time() is read in ticks of 1/TicksPerSecond s; it  *)
(* does not run backwards, a sleep takes at least its seconds, and whatever *)
(* else happens between two readings takes up to MaxLatency ticks.          *)

TicksPerSecond == 2
MaxLatency == 1

\* the seconds slept from event i of the trace on
RECURSIVE Slept(_, _)
Slept(tr, i) ==
    IF i > Len(tr) THEN 0
    ELSE (IF tr[i].ev = "sleep" THEN tr[i].x.n ELSE 0) + Slept(tr, i + 1)

\* the least the clock can read now: its latest reading (0 when it was not
\* read yet) and the sleeps since
EarliestNow(tr) ==
    LET read == At(tr, "invoke", "send_a2a_payment_request")
        k == CHOOSE i \in read : \A j \in read : j <= i
    IN  IF read = {} THEN 0 ELSE tr[k].n.n + TicksPerSecond * Slept(tr, k + 1)

\* what the clock may read now
Clock(tr) == EarliestNow(tr) .. EarliestNow(tr) + MaxLatency

\* "id": f"payment-{int(time.time())}"
CorrelationId(now) == JNum(now \div TicksPerSecond)

-----------------------------------------------------------------------------
(* A2AIntegratedClient (a2a_integrated_payment_demo.py).  Every method is   *)
(* an operator of the session s it runs on, the actor `by` that owns the   *)
(* session, its arguments and the response the remote gives.               *)

\* register_avatar: POST /api/avatar/register through a curl subprocess
A2AIntegratedClient_register_avatar(s, by, username, curl) ==
    LET pre  == <<Invoke("register_avatar", by), Req("avatar/register", by, username, Null)>>
        fail == Out(s, EmptyObj, pre \o <<Log("registration-failed", by)>>)
        data   == curl.body
        result == Get(data, "result", EmptyObj)
        id     == Get1(Get(result, "result", EmptyObj), "id")
    IN  IF curl.body.t = "exc" THEN Raised(s, pre)
        ELSE IF curl.status = 0 /\ curl.body.t # "empty"
        THEN IF curl.body.t = "invalid" \/ result.t = "raise" THEN Raised(s, pre)
             ELSE IF Get1(data, "statusCode") = JNum(200)
             THEN IF Get1(result, "isError").t = "raise" THEN Raised(s, pre)
                  ELSE IF ~Truthy(Get1(result, "isError"))
                  THEN IF id.t = "raise" THEN Raised(s, pre)
                       ELSE Out([s EXCEPT !.avatar_id = id, !.username = username], data,
                                pre \o <<Log("avatar-registered", by)>>)
                  ELSE fail
             ELSE fail
        ELSE fail

\* authenticate: POST /api/avatar/authenticate
A2AIntegratedClient_authenticate(s, by, username, r) ==
    LET pre    == <<Invoke("authenticate", by), Req("avatar/authenticate", by, username, Null)>>
        data   == r.body
        outer  == Get(data, "result", EmptyObj)
        result == PyOr(Get(outer, "result", EmptyObj), outer)
        token  == PyOr(Get1(result, "jwtToken"), Get1(result, "token"))
        id     == PyOr(Get1(result, "id"), Get1(result, "avatarId"))
    IN  IF ~HasJson(r) \/ Get1(data, "isError").t = "raise" THEN Raised(s, pre)
        ELSE IF r.status = 200 /\ ~Truthy(Get1(data, "isError"))
        THEN IF result.t = "raise" \/ token.t = "raise" \/ id.t = "raise" THEN Raised(s, pre)
             ELSE Out([s EXCEPT !.token = token, !.avatar_id = id, !.username = username],
                      JBool(TRUE),
                      pre \o <<Log("authenticated", by)>>)
        ELSE Out(s, JBool(FALSE),
                 pre \o <<Log("authentication-failed", by)>>)

\* a list of service names, and a pricing table over the service names of ns
\* (prices in hundredths of a SOL)
Services(names) == JList([i \in 1..Len(names) |-> JStr(names[i])])
Pricing(ns) == JObj([n \in ns |-> JNum(IF n = "ai-processing" THEN 15 ELSE 10)])

\* register_capabilities: POST /api/a2a/agent/capabilities
A2AIntegratedClient_register_capabilities(s, by, services, pricing, r) ==
    LET inv  == <<Invoke("register_capabilities", by)>>
        pre  == inv \o <<Req("a2a/agent/capabilities", by, services, pricing)>>
        data == r.body
    IN  IF ~Truthy(s.token)
        THEN Out(s, JBool(FALSE), inv \o <<Log("must-authenticate-first", by)>>)
        ELSE IF ~HasJson(r) \/ Get1(data, "success").t = "raise" THEN Raised(s, pre)
        ELSE IF r.status = 200 /\ Truthy(Get1(data, "success"))
        THEN Out(s, JBool(TRUE), pre \o <<Log("capabilities-registered", by)>>)
        ELSE IF Get(data, "error", JStr("Unknown error")).t = "raise" THEN Raised(s, pre)
        ELSE Out(s, JBool(FALSE), pre \o <<Log("capabilities-failed", by)>>)

\* discover_agents_by_service: GET /api/a2a/agents/by-service/{service_name}
A2AIntegratedClient_discover_agents_by_service(s, by, service_name, r) ==
    LET pre    == <<Invoke("discover_agents_by_service", by),
                    Req("a2a/agents/by-service", by, service_name, Null)>>
        data   == r.body
        agents == IF IsDict(data) THEN Get(data, "$values", EmptyList) ELSE data
    IN  IF r.body.t = "exc" THEN Raised(s, pre)
        ELSE IF r.status = 200
        THEN IF ~HasJson(r) THEN Raised(s, pre)
             ELSE IF IsList(agents)
             THEN Out(s, agents, pre \o <<Log("found-agents", by)>>)
             ELSE Out(s, EmptyList, pre)
        ELSE Out(s, EmptyList, pre)

\* variant of send_a2a_payment_request that posts the message again when the
\* remote answers with an error
A2AIntegratedClient_send_a2a_payment_request_Resend(s, by, to_agent_id, description, now, r) ==
    LET inv  == <<Carrying(Invoke("send_a2a_payment_request", by), JNum(now))>>
        req  == Carrying(Req("a2a/jsonrpc", by, to_agent_id, description),
                         CorrelationId(now))
        pre  == inv \o <<req>>
        data == r.body
        message_id_ == Get1(Get(data, "result", EmptyObj), "message_id")
        error == Get(data, "error", EmptyObj)
    IN  IF ~Truthy(s.token)
        THEN Out(s, Null, inv \o <<Log("must-authenticate-first", by)>>)
        ELSE IF ~HasJson(r) \/ Get1(data, "result").t = "raise" THEN Raised(s, pre)
        ELSE IF r.status = 200 /\ Truthy(Get1(data, "result"))
        THEN IF message_id_.t = "raise" THEN Raised(s, pre)
             ELSE Out(s, message_id_, pre \o <<Log("payment-request-sent", by)>>)
        ELSE IF Get(error, "message", JStr("Unknown error")).t = "raise" THEN Raised(s, pre)
        ELSE Out(s, Null, pre \o <<req, Log("payment-request-failed", by)>>)

\* send_a2a_payment_request: POST /api/a2a/jsonrpc, method payment_request
A2AIntegratedClient_send_a2a_payment_request(s, by, to_agent_id, description, now, r) ==
    LET inv  == <<Carrying(Invoke("send_a2a_payment_request", by), JNum(now))>>
        pre  == inv \o <<Carrying(Req("a2a/jsonrpc", by, to_agent_id, description),
                                  CorrelationId(now))>>
        data == r.body
        message_id_ == Get1(Get(data, "result", EmptyObj), "message_id")
        error == Get(data, "error", EmptyObj)
    IN  IF ~Truthy(s.token)
        THEN Out(s, Null, inv \o <<Log("must-authenticate-first", by)>>)
        ELSE IF ~HasJson(r) \/ Get1(data, "result").t = "raise" THEN Raised(s, pre)
        ELSE IF r.status = 200 /\ Truthy(Get1(data, "result"))
        THEN IF message_id_.t = "raise" THEN Raised(s, pre)
             ELSE Out(s, message_id_, pre \o <<Log("payment-request-sent", by)>>)
        ELSE IF Get(error, "message", JStr("Unknown error")).t = "raise" THEN Raised(s, pre)
        ELSE Out(s, Null, pre \o <<Log("payment-request-failed", by)>>)

\* get_pending_messages: GET /api/a2a/messages
A2AIntegratedClient_get_pending_messages(s, by, r) ==
    LET inv  == <<Invoke("get_pending_messages", by)>>
        pre  == inv \o <<Req("a2a/messages", by, Null, Null)>>
        data == r.body
        messages == IF IsDict(data) THEN Get(data, "$values", EmptyList) ELSE data
        ret  == IF IsList(messages) THEN messages ELSE EmptyList
    IN  IF ~Truthy(s.token)
        THEN Out(s, EmptyList, inv)
        ELSE IF r.body.t = "exc" THEN Raised(s, pre)
        ELSE IF r.status = 200
        THEN IF ~HasJson(r) THEN Raised(s, pre)
             ELSE Out(s, ret, pre)
        ELSE Out(s, EmptyList, pre)

\* create_solana_wallet: POST /api/wallet/avatar/{avatar_id}/create-wallet
A2AIntegratedClient_create_solana_wallet(s, by, r) ==
    LET inv  == <<Invoke("create_solana_wallet", by)>>
        pre  == inv \o <<Req("wallet/create-wallet", by, s.avatar_id, Null)>>
        data == r.body
        result == Get(data, "result", EmptyObj)
        addr == PyOr(Get1(result, "walletAddress"), Get1(result, "publicKey"))
    IN  IF ~Truthy(s.token) \/ ~Truthy(s.avatar_id)
        THEN Out(s, JBool(FALSE), inv \o <<Log("must-authenticate-first", by)>>)
        ELSE IF ~HasJson(r) \/ Get1(data, "isError").t = "raise" THEN Raised(s, pre)
        ELSE IF r.status = 200 /\ ~Truthy(Get1(data, "isError"))
        THEN IF addr.t = "raise" THEN Raised(s, pre)
             ELSE Out([s EXCEPT !.wallet_address = addr], JBool(TRUE),
                      pre \o <<Log("wallet-created", by)>>)
        ELSE Out(s, JBool(FALSE), pre \o <<Log("wallet-creation-failed", by)>>)

\* variant of send_solana_payment that submits the transfer a second time when
\* the first submission is reported as failed
A2AIntegratedClient_send_solana_payment_Resubmit(s, by, to_wallet_address, amount_sol, r) ==
    LET inv  == <<Carrying(InvokeWith("send_solana_payment", by, Null, to_wallet_address), amount_sol)>>
        req  == Carrying(Req("solana/send", by, s.wallet_address, to_wallet_address),
                                  JNum(ToLamports(amount_sol)))
        pre  == inv \o <<Log("sending", by), req>>
        data == r.body
        hash == Get1(Get(data, "result", EmptyObj), "transactionHash")
    IN  IF ~Truthy(s.token) \/ ~Truthy(s.wallet_address)
        THEN Out(s, Null, inv \o <<Log("must-authenticate-and-have-wallet", by)>>)
        ELSE IF to_wallet_address.t # "str" THEN Raised(s, inv)
        ELSE IF ~HasJson(r) \/ Get1(data, "isError").t = "raise" THEN Raised(s, pre)
        ELSE IF r.status = 200 /\ ~Truthy(Get1(data, "isError"))
        THEN IF hash.t = "raise" THEN Raised(s, pre)
             ELSE Out(s, hash, pre \o <<Log("payment-sent", by)>>)
        ELSE Out(s, Null, pre \o <<req, Log("payment-failed", by)>>)

\* variant of send_solana_payment that does not look at the session's wallet
\* address before it submits
A2AIntegratedClient_send_solana_payment_NoWalletCheck(s, by, to_wallet_address, amount_sol, r) ==
    LET inv  == <<Carrying(InvokeWith("send_solana_payment", by, Null, to_wallet_address), amount_sol)>>
        pre  == inv \o <<Log("sending", by),
                         Carrying(Req("solana/send", by, s.wallet_address, to_wallet_address),
                                  JNum(ToLamports(amount_sol)))>>
        data == r.body
        hash == Get1(Get(data, "result", EmptyObj), "transactionHash")
    IN  IF ~Truthy(s.token)
        THEN Out(s, Null, inv \o <<Log("must-authenticate-and-have-wallet", by)>>)
        ELSE IF to_wallet_address.t # "str" THEN Raised(s, inv)
        ELSE IF ~HasJson(r) \/ Get1(data, "isError").t = "raise" THEN Raised(s, pre)
        ELSE IF r.status = 200 /\ ~Truthy(Get1(data, "isError"))
        THEN IF hash.t = "raise" THEN Raised(s, pre)
             ELSE Out(s, hash, pre \o <<Log("payment-sent", by)>>)
        ELSE Out(s, Null, pre \o <<Log("payment-failed", by)>>)

\* send_solana_payment: POST /api/solana/send
A2AIntegratedClient_send_solana_payment(s, by, to_wallet_address, amount_sol, r) ==
    LET inv  == <<Carrying(InvokeWith("send_solana_payment", by, Null, to_wallet_address), amount_sol)>>
        pre  == inv \o <<Log("sending", by),
                         Carrying(Req("solana/send", by, s.wallet_address, to_wallet_address),
                                  JNum(ToLamports(amount_sol)))>>
        data == r.body
        hash == Get1(Get(data, "result", EmptyObj), "transactionHash")
    IN  IF ~Truthy(s.token) \/ ~Truthy(s.wallet_address)
        THEN Out(s, Null, inv \o <<Log("must-authenticate-and-have-wallet", by)>>)
        \* to_wallet_address[:8] raises TypeError on None
        ELSE IF to_wallet_address.t # "str" THEN Raised(s, inv)
        ELSE IF ~HasJson(r) \/ Get1(data, "isError").t = "raise" THEN Raised(s, pre)
        ELSE IF r.status = 200 /\ ~Truthy(Get1(data, "isError"))
        THEN IF hash.t = "raise" THEN Raised(s, pre)
             ELSE Out(s, hash, pre \o <<Log("payment-sent", by)>>)
        ELSE IF Get(data, "message", JStr("Unknown error")).t = "raise" THEN Raised(s, pre)
        ELSE Out(s, Null, pre \o <<Log("payment-failed", by)>>)

\* fund_wallet: a send_solana_payment from the session's (admin) wallet
A2AIntegratedClient_fund_wallet(s, by, to_wallet_address, amount_sol, r) ==
    A2AIntegratedClient_send_solana_payment(s, by, to_wallet_address, amount_sol, r)

-----------------------------------------------------------------------------
(* OASISClient (a2a_solana_payment_demo.py)                                 *)

\* register_avatar: curl first; when curl fails or its output does not parse,
\* the same POST through requests (response r)
OASISClient_register_avatar(s, by, username, curl, r) ==
    LET inv     == <<Invoke("register_avatar", by), Req("avatar/register", by, username, Null)>>
        curlOK  == /\ curl.body.t \notin {"exc", "empty", "invalid"}
                   /\ curl.status = 0
                   /\ IsDict(curl.body)
        pre     == IF curlOK THEN inv ELSE inv \o <<Req("avatar/register", by, username, Null)>>
        data    == IF curlOK THEN curl.body ELSE r.body
        result_data == Get(curl.body, "result", EmptyObj)
        status_code ==
            IF curlOK
            THEN IF Get1(curl.body, "status") = JNum(400) THEN 400
                 ELSE IF IsDict(result_data) /\ Truthy(Get1(result_data, "isError")) THEN 400
                 ELSE 200
            ELSE r.status
        result   == Get(data, "result", EmptyObj)
        is_error == PyOr(Get(result, "isError", JBool(FALSE)), Get(data, "isError", JBool(FALSE)))
        id       == PyOr(Get1(result, "id"), Get1(Get(result, "result", EmptyObj), "id"))
        error_msg == PyOr(Get1(result, "message"), Get(data, "message", JStr("Unknown error")))
    IN  IF ~curlOK /\ ~HasJson(r)
        THEN Out(s, OkErr("Registration failed"), pre \o <<Log("curl-and-requests-failed", by)>>)
        ELSE IF result.t = "raise" \/ is_error.t = "raise" THEN Raised(s, pre)
        ELSE IF status_code = 200 /\ ~Truthy(is_error)
        THEN IF id.t = "raise" THEN Raised(s, pre)
             ELSE Out([s EXCEPT !.avatar_id = id, !.username = username], data,
                      pre \o <<Log("avatar-registered", by)>>)
        ELSE IF error_msg.t = "raise" THEN Raised(s, pre)
        ELSE Out(s, data, pre \o <<Log("registration-failed", by)>>)

\* authenticate: POST /api/avatar/authenticate
OASISClient_authenticate(s, by, username, r) ==
    LET pre    == <<Invoke("authenticate", by), Req("avatar/authenticate", by, username, Null)>>
        data   == r.body
        outer  == Get(data, "result", EmptyObj)
        result == PyOr(Get(outer, "result", EmptyObj), outer)
        token  == PyOr(Get1(result, "jwtToken"), Get1(result, "token"))
        id     == Get1(result, "id")
    IN  IF ~HasJson(r) \/ Get1(data, "isError").t = "raise" THEN Raised(s, pre)
        ELSE IF r.status = 200 /\ ~Truthy(Get1(data, "isError"))
        THEN IF result.t = "raise" \/ token.t = "raise" \/ id.t = "raise" THEN Raised(s, pre)
             ELSE Out([s EXCEPT !.token = token, !.avatar_id = id, !.username = username],
                      JBool(TRUE), pre \o <<Log("authenticated", by)>>)
        ELSE Out(s, JBool(FALSE), pre \o <<Log("authentication-failed", by)>>)

\* variant of create_solana_wallet that does not look at the token and the
\* avatar id before it posts
OASISClient_create_solana_wallet_NoCheck(s, by, r) ==
    LET inv  == <<Invoke("create_solana_wallet", by)>>
        pre  == inv \o <<Req("wallet/create-wallet", by, s.avatar_id, Null)>>
        data == r.body
        result == Get(data, "result", EmptyObj)
        addr == PyOr(Get1(result, "walletAddress"), Get1(result, "publicKey"))
    IN  IF ~HasJson(r) \/ Get1(data, "isError").t = "raise" THEN Raised(s, pre)
        ELSE IF r.status = 200 /\ ~Truthy(Get1(data, "isError"))
        THEN IF addr.t = "raise" THEN Raised(s, pre)
             ELSE Out([s EXCEPT !.wallet_address = addr], data,
                      pre \o <<Log("wallet-created", by)>>)
        ELSE Out(s, data, pre \o <<Log("wallet-creation-failed", by)>>)

\* create_solana_wallet: POST /api/wallet/avatar/{avatar_id}/create-wallet
OASISClient_create_solana_wallet(s, by, r) ==
    LET inv  == <<Invoke("create_solana_wallet", by)>>
        pre  == inv \o <<Req("wallet/create-wallet", by, s.avatar_id, Null)>>
        data == r.body
        result == Get(data, "result", EmptyObj)
        addr == PyOr(Get1(result, "walletAddress"), Get1(result, "publicKey"))
    IN  IF ~Truthy(s.token) \/ ~Truthy(s.avatar_id)
        THEN Out(s, EmptyObj, inv \o <<Log("must-authenticate-first", by)>>)
        ELSE IF ~HasJson(r) \/ Get1(data, "isError").t = "raise" THEN Raised(s, pre)
        ELSE IF r.status = 200 /\ ~Truthy(Get1(data, "isError"))
        THEN IF addr.t = "raise" THEN Raised(s, pre)
             ELSE Out([s EXCEPT !.wallet_address = addr], data,
                      pre \o <<Log("wallet-created", by)>>)
        ELSE Out(s, data, pre \o <<Log("wallet-creation-failed", by)>>)

\* get_wallets: GET /api/wallet/avatar/{avatar_id}/wallets?providerType=SolanaOASIS
OASISClient_get_wallets(s, by, r) ==
    LET inv  == <<Invoke("get_wallets", by)>>
        pre  == inv \o <<Req("wallet/wallets", by, s.avatar_id, Null)>>
        data == r.body
        wallets == Get(data, "result", EmptyObj)
        wallet_list == Get1(wallets, "SolanaOASIS")
        first == wallet_list.l[1]
        addr == PyOr(Get1(first, "walletAddress"), Get1(first, "publicKey"))
    IN  IF ~Truthy(s.token) \/ ~Truthy(s.avatar_id)
        THEN Out(s, EmptyObj, inv \o <<Log("must-authenticate-first", by)>>)
        ELSE IF ~HasJson(r) \/ Get1(data, "isError").t = "raise" THEN Raised(s, pre)
        ELSE IF r.status = 200 /\ ~Truthy(Get1(data, "isError"))
        THEN \* `provider_type in wallets` raises on None
             IF wallets.t \notin {"obj", "list", "str"} THEN Raised(s, pre)
             ELSE IF IsDict(wallets) /\ "SolanaOASIS" \in DOMAIN wallets.o
                     /\ IsList(wallet_list) /\ Truthy(wallet_list)
             THEN IF addr.t = "raise" THEN Raised(s, pre)
                  ELSE Out([s EXCEPT !.wallet_address = addr], data,
                           pre \o <<Log("found-wallets", by)>>)
             ELSE Out(s, data, pre \o <<Log("no-wallets-found", by)>>)
        ELSE Out(s, data, pre \o <<Log("failed-to-get-wallets", by)>>)

\* send_solana_payment: POST /api/solana/send
OASISClient_send_solana_payment(s, by, to_wallet_address, amount_sol, from_wallet_address, r) ==
    LET inv  == <<Carrying(InvokeWith("send_solana_payment", by, from_wallet_address,
                                      to_wallet_address), amount_sol)>>
        from_wallet == PyOr(from_wallet_address, s.wallet_address)
        pre  == inv \o <<Log("sending", by),
                         Carrying(Req("solana/send", by, from_wallet, to_wallet_address),
                                  JNum(ToLamports(amount_sol)))>>
        data == r.body
        hash == Get(Get(data, "result", EmptyObj), "transactionHash", JStr("N/A"))
    IN  IF ~Truthy(s.token)
        THEN Out(s, EmptyObj, inv \o <<Log("must-authenticate-first", by)>>)
        ELSE IF ~Truthy(from_wallet)
        THEN Out(s, EmptyObj, inv \o <<Log("must-have-wallet-address", by)>>)
        \* from_wallet[:8] and to_wallet_address[:8] raise TypeError on a non-string
        ELSE IF from_wallet.t # "str" \/ to_wallet_address.t # "str" THEN Raised(s, inv)
        ELSE IF r.body.t = "exc" THEN Raised(s, pre)
        ELSE IF ~HasJson(r)
        THEN Out(s, OkErr("Invalid response"), pre \o <<Log("invalid-json-response", by)>>)
        ELSE IF Get1(data, "isError").t = "raise" THEN Raised(s, pre)
        ELSE IF r.status = 200 /\ ~Truthy(Get1(data, "isError"))
        THEN IF hash.t = "raise" THEN Raised(s, pre)
             ELSE Out(s, data, pre \o <<Log("payment-sent", by)>>)
        ELSE IF Get(data, "message", JStr("Unknown error")).t = "raise" THEN Raised(s, pre)
        ELSE Out(s, data, pre \o <<Log("payment-failed", by)>>)

\* fund_wallet: a send_solana_payment from ADMIN_WALLET_ADDRESS
OASISClient_fund_wallet(s, by, to_wallet_address, amount_sol, r) ==
    OASISClient_send_solana_payment(s, by, to_wallet_address, amount_sol, ADMIN_WALLET_ADDRESS, r)

-----------------------------------------------------------------------------
(* SERVDiscoveryDemo (a2a_serv_discovery_demo.py); its agent_id is kept in  *)
(* the session's avatar_id field.                                           *)

\* authenticate: POST /api/avatar/authenticate; every exception is caught and logged
SERVDiscoveryDemo_authenticate(s, by, username, r) ==
    LET pre    == <<Invoke("authenticate", by), Log("authenticating", by),
                    Req("avatar/authenticate", by, username, Null)>>
        failed == pre \o <<Log("authentication-failed", by)>>
        data   == r.body
        result == Get(data, "result", EmptyObj)
        token  == Get1(result, "token")
        id     == Get1(Get(result, "avatar", EmptyObj), "id")
    IN  IF r.body.t = "exc" THEN Out(s, JBool(FALSE), failed)
        ELSE IF r.status = 200
        THEN IF ~HasJson(r) \/ result.t = "raise" \/ token.t = "raise"
             THEN Out(s, JBool(FALSE), failed)
             ELSE IF id.t = "raise"
             THEN Out([s EXCEPT !.token = token], JBool(FALSE), failed)
             ELSE IF Truthy(token)
             THEN Out([s EXCEPT !.token = token, !.avatar_id = id], JBool(TRUE),
                      pre \o <<Log("authenticated", by)>>)
             ELSE Out([s EXCEPT !.token = token, !.avatar_id = id], JBool(FALSE), pre)
        ELSE Out(s, JBool(FALSE), pre)

\* register_capabilities: POST /api/a2a/agent/capabilities; the pricing sent is
\* {service: 0.1 for service in services}; every exception is caught and logged
SERVDiscoveryDemo_register_capabilities(s, by, services, r) ==
    LET pricing == JObj([n \in {services.l[i].s : i \in 1..Len(services.l)} |-> JNum(10)])
        pre == <<Invoke("register_capabilities", by), Log("registering-capabilities", by),
                 Req("a2a/agent/capabilities", by, services, pricing)>>
    IN  IF r.body.t = "exc"
        THEN Out(s, JBool(FALSE), pre \o <<Log("error-registering-capabilities", by)>>)
        ELSE IF r.status = 200
        THEN Out(s, JBool(TRUE), pre \o <<Log("capabilities-registered", by)>>)
        ELSE Out(s, JBool(FALSE), pre \o <<Log("capabilities-failed", by)>>)

\* register_as_serv_service: POST /api/a2a/agent/register-service
SERVDiscoveryDemo_register_as_serv_service(s, by, r) ==
    LET pre == <<Invoke("register_as_serv_service", by), Log("registering-serv-service", by),
                 Req("a2a/agent/register-service", by, Null, Null)>>
    IN  IF r.body.t = "exc" \/ (r.status = 200 /\ ~HasJson(r))
        THEN Out(s, JBool(FALSE), pre \o <<Log("error-registering-serv-service", by)>>)
        ELSE IF r.status = 200
        THEN Out(s, JBool(TRUE), pre \o <<Log("serv-service-registered", by)>>)
        ELSE Out(s, JBool(FALSE), pre \o <<Log("serv-service-failed", by)>>)

\* lines 144-154 and 162-172, common to both discover methods: the parsed body
\* is returned as it is; len() of it raises on a body that has no length
SERVDiscoveryDemo_discover(s, by, method, service_name, r) ==
    LET pre == <<Invoke(method, by), Log("discovering", by),
                 Req("a2a/agents/discover-serv", by, service_name, Null)>>
        agents == r.body
    IN  IF r.body.t = "exc" \/ (r.status = 200 /\ ~HasJson(r))
        THEN Out(s, EmptyList, pre \o <<Log("error-discovering-agents", by)>>)
        ELSE IF r.status = 200
        THEN IF agents.t \in {"list", "obj", "str"}
             THEN Out(s, agents, pre \o <<Log("found-agents", by)>>)
             ELSE Out(s, EmptyList, pre \o <<Log("error-discovering-agents", by)>>)
        ELSE Out(s, EmptyList, pre \o <<Log("failed-to-discover-agents", by)>>)

\* discover_all_agents_via_serv: GET /api/a2a/agents/discover-serv
SERVDiscoveryDemo_discover_all_agents_via_serv(s, by, r) ==
    SERVDiscoveryDemo_discover(s, by, "discover_all_agents_via_serv", Null, r)

\* discover_agents_by_service: GET /api/a2a/agents/discover-serv?service=...
SERVDiscoveryDemo_discover_agents_by_service(s, by, service_name, r) ==
    SERVDiscoveryDemo_discover(s, by, "discover_agents_by_service", service_name, r)

-----------------------------------------------------------------------------
(* test_agent_nft_minting.py: module-level functions; the globals           *)
(* agent_token and agent_id are kept in the session's token and avatar_id.  *)

\* Python `v.get(k1) or v.get(k2) or ...` over the keys of ks, in order
GetFirst(v, ks) ==
    LET RECURSIVE go(_)
        go(i) == IF i = Len(ks) THEN Get1(v, ks[i])
                 ELSE PyOr(Get1(v, ks[i]), go(i + 1))
    IN  go(1)

\* `'already exists' in m.lower() or 'exist' in m.lower()` for the messages the
\* identity service gives; raises when m is not a string
MentionsExist(m) ==
    IF m.t # "str" THEN Raise ELSE JBool(m.s \in {"username already exists"})

\* create_agent: POST /api/avatar/register; every exception is caught and logged
create_agent(s, by, username, r) ==
    LET pre    == <<Invoke("create_agent", by), Req("avatar/register", by, username, Null)>>
        error  == Out(s, JBool(FALSE), pre \o <<Log("error-creating-agent", by)>>)
        failed == Out(s, JBool(FALSE), pre \o <<Log("registration-failed", by)>>)
        exists == Out([s EXCEPT !.avatar_id = Null], JBool(TRUE),
                      pre \o <<Log("agent-already-exists", by)>>)
        data   == r.body
        outer  == Get1(data, "result")
        avatar == Get1(outer, "result")
        id     == PyOr(Get1(avatar, "id"), Get1(avatar, "avatarId"))
        error_msg == PyOr(Get(data, "message", JStr("")),
                          IF IsDict(outer) THEN Get(outer, "message", JStr("")) ELSE JStr(""))
    IN  IF r.body.t = "exc" THEN error
        ELSE IF r.status = 200
        THEN IF ~HasJson(r) \/ outer.t = "raise" THEN error
             ELSE IF Truthy(outer) /\ avatar.t = "raise" THEN error
             ELSE IF Truthy(outer) /\ Truthy(avatar)
             THEN IF id.t = "raise" THEN error
                  ELSE Out([s EXCEPT !.avatar_id = id], JBool(TRUE),
                           pre \o <<Log("agent-created", by)>>)
             ELSE IF error_msg.t = "raise" \/ MentionsExist(error_msg).t = "raise" THEN error
             ELSE IF MentionsExist(error_msg).b THEN exists
             ELSE failed
        ELSE IF r.status = 400
        THEN \* response.text is searched: the message wherever the body carries it
             IF HasJson(r) /\ IsDict(data)
                /\ (MentionsExist(Get(data, "message", JStr(""))) = JBool(TRUE)
                    \/ (IsDict(outer)
                        /\ MentionsExist(Get(outer, "message", JStr(""))) = JBool(TRUE)))
             THEN exists
             ELSE failed
        ELSE failed

\* authenticate_agent: POST /api/avatar/authenticate; every exception is caught
authenticate_agent(s, by, username, r) ==
    LET pre    == <<Invoke("authenticate", by), Req("avatar/authenticate", by, username, Null)>>
        error  == Out(s, JBool(FALSE), pre \o <<Log("error-authenticating", by)>>)
        failed == Out(s, JBool(FALSE), pre \o <<Log("authentication-failed", by)>>)
        data   == r.body
        avatar_data == Get(data, "result", EmptyObj)
        avatar_info == IF "result" \in DOMAIN avatar_data.o THEN avatar_data.o["result"]
                       ELSE avatar_data
        first  == GetFirst(avatar_info, <<"JwtToken", "jwtToken">>)
        agent_token == IF Truthy(first) THEN first
                       ELSE GetFirst(avatar_info, <<"Token", "token", "AccessToken", "accessToken">>)
        \* the last alternative is str(avatar_info.get('avatarId', ''))
        found  == GetFirst(avatar_info, <<"id", "Id", "AvatarId", "avatarId">>)
        agent_id == IF Truthy(s.avatar_id) THEN s.avatar_id
                    ELSE IF Truthy(found) THEN found
                    ELSE IF Get(avatar_info, "avatarId", JStr("")) = Null
                    THEN JStr("None") ELSE JStr("")
        after  == [s EXCEPT !.token = agent_token, !.avatar_id = agent_id]
    IN  IF r.body.t = "exc" THEN error
        ELSE IF r.status = 200
        THEN IF ~HasJson(r) \/ avatar_data.t = "raise" THEN error
             ELSE IF ~IsDict(avatar_data) \/ ~IsDict(avatar_info) THEN failed
             ELSE IF Truthy(agent_token)
             THEN Out(after, JBool(TRUE), pre \o <<Log("authenticated", by)>>)
             ELSE Out(after, JBool(FALSE), pre \o <<Log("token-not-found", by)>>)
        ELSE failed

-----------------------------------------------------------------------------
(* What the remote services may answer.  Identifiers, tokens and wallet     *)
(* addresses are the ones the services assign to the actor served; every   *)
(* shape the clients distinguish is present, failures included.            *)

\* curl results of POST /api/avatar/register (status is curl's return code)
RegisterOutputs(a) ==
    { Resp(0, JObj([statusCode |-> JNum(200),
                    result |-> JObj([isError |-> JBool(FALSE),
                                     result |-> JObj([id |-> IdOf(a)])])])),
      Resp(0, JObj([statusCode |-> JNum(200),
                    result |-> JObj([isError |-> JBool(FALSE), result |-> EmptyObj])])),
      Resp(0, JObj([statusCode |-> JNum(200),
                    result |-> JObj([isError |-> JBool(TRUE),
                                     message |-> JStr("username already exists")])])),
      Resp(0, JObj([isError |-> JBool(FALSE), result |-> JObj([id |-> IdOf(a)])])),
      Resp(0, JObj([status |-> JNum(400), errors |-> JObj([email |-> JStr("invalid")])])),
      Resp(0, Invalid),
      Resp(0, EmptyOut),
      Resp(7, EmptyOut),
      Timeout }

\* responses of POST /api/avatar/authenticate
AuthResponses(a) ==
    { Resp(200, JObj([result |-> JObj([result |-> JObj([jwtToken |-> JWT, id |-> IdOf(a)])])])),
      Resp(200, JObj([isError |-> JBool(FALSE),
                      result |-> JObj([token |-> JWT, avatarId |-> IdOf(a)])])),
      Resp(200, JObj([isError |-> JBool(FALSE),
                      result |-> JObj([token |-> JWT, avatar |-> JObj([id |-> IdOf(a)])])])),
      Resp(200, JObj([result |-> JObj([result |-> JObj([token |-> JWT])])])),
      Resp(200, JObj([isError |-> JBool(FALSE),
                      result |-> JObj([jwtToken |-> JWT, id |-> IdOf(a)])])),
      Resp(200, JObj([isError |-> JBool(FALSE),
                      result |-> JObj([token |-> JStr(""), id |-> IdOf(a)])])),
      Resp(200, JObj([result |-> JObj([isError |-> JBool(TRUE),
                                       message |-> JStr("invalid credentials")])])),
      Resp(200, OkErr("invalid credentials")),
      Resp(200, JObj([isError |-> JBool(FALSE), result |-> Null])),
      Resp(401, OkErr("unauthorized")),
      Resp(502, Invalid),
      Timeout }

\* responses of the same POST through requests, tried when curl gave nothing usable
RegisterFallbackResponses(a) ==
    { Resp(200, JObj([result |-> JObj([isError |-> JBool(FALSE),
                                       result |-> JObj([id |-> IdOf(a)])])])),
      Resp(200, JObj([result |-> JObj([isError |-> JBool(TRUE),
                                       message |-> JStr("username already exists")])])),
      Resp(400, JObj([status |-> JNum(400), errors |-> JObj([email |-> JStr("invalid")])])),
      Resp(200, JObj([isError |-> JBool(FALSE), result |-> Null])),
      Resp(502, Invalid),
      Timeout }

\* responses of POST /api/a2a/agent/capabilities
CapabilityResponses ==
    { Resp(200, JObj([success |-> JBool(TRUE)])),
      Resp(200, JObj([success |-> JBool(FALSE), error |-> JStr("rejected")])),
      Resp(400, JObj([error |-> JStr("bad request")])),
      Resp(502, Invalid),
      Timeout }

\* responses of POST /api/wallet/avatar/{id}/create-wallet
WalletResponses(a) ==
    { Resp(200, JObj([isError |-> JBool(FALSE), result |-> JObj([walletAddress |-> WalletOf(a)])])),
      Resp(200, JObj([isError |-> JBool(FALSE), result |-> JObj([publicKey |-> WalletOf(a)])])),
      Resp(200, JObj([isError |-> JBool(FALSE), result |-> EmptyObj])),
      Resp(200, JObj([isError |-> JBool(FALSE), result |-> Null])),
      Resp(200, OkErr("unsupported provider")),
      Resp(400, OkErr("bad request")),
      Resp(502, Invalid),
      Timeout }

\* responses of GET /api/wallet/avatar/{id}/wallets
WalletsResponses(a) ==
    { Resp(200, JObj([isError |-> JBool(FALSE),
                      result |-> JObj([SolanaOASIS |-> JList(<<JObj([walletAddress |-> WalletOf(a)])>>)])])),
      Resp(200, JObj([isError |-> JBool(FALSE),
                      result |-> JObj([SolanaOASIS |-> JList(<<JObj([name |-> JStr("Solana Wallet")])>>)])])),
      Resp(200, JObj([isError |-> JBool(FALSE), result |-> JObj([SolanaOASIS |-> EmptyList])])),
      Resp(200, JObj([isError |-> JBool(FALSE), result |-> EmptyObj])),
      Resp(200, JObj([isError |-> JBool(FALSE), result |-> Null])),
      Resp(200, OkErr("avatar not found")),
      Resp(502, Invalid),
      Timeout }

\* agent descriptors of the registry: Agent A's and another provider's
Card(id) == JObj([agentId |-> id, name |-> JStr("agent")])
OtherCard == Card(JStr("id-other"))

\* the enveloped shape {"$values": v} of a sequence
Enveloped(v) == JObj("$values" :> v)

\* the result sets the registry may hold at its q-th by-service query: Agent A is
\* listed from query number listAt on; other providers may be listed at any time
Listings(q) ==
    IF listAt <= q THEN { <<OtherCard, Card(IdOf("A"))>> }
                   ELSE { <<>>, <<OtherCard>> }

\* responses of GET /api/a2a/agents/by-service/{service} and of
\* GET /api/a2a/agents/discover-serv when the registry holds one of the lists
DiscoveryResponsesOf(lists) ==
    { Resp(200, JList(l)) : l \in lists }
    \cup { Resp(200, Enveloped(JList(l))) : l \in lists }
    \cup { Resp(200, EmptyObj), Resp(200, Enveloped(Null)),
           Resp(500, OkErr("registry down")), Resp(200, Invalid), Timeout }

\* responses to the q-th by-service query of a workflow run
DiscoveryResponses(q) == DiscoveryResponsesOf(Listings(q))

\* responses of POST /api/a2a/jsonrpc
RpcResponses ==
    { Resp(200, JObj([jsonrpc |-> JStr("2.0"), result |-> JObj([message_id |-> JStr("msg-1")])])),
      Resp(200, JObj([jsonrpc |-> JStr("2.0"), result |-> JObj([status |-> JStr("queued")])])),
      Resp(200, JObj([jsonrpc |-> JStr("2.0"),
                      error |-> JObj([code |-> JNum(0 - 32601), message |-> JStr("no method")])])),
      Resp(500, JObj([error |-> JObj([message |-> JStr("server error")])])),
      Resp(502, Invalid),
      Timeout }

\* responses of GET /api/a2a/messages
PendingMessage == JObj([messageType |-> JStr("payment_request"), content |-> JStr("request")])
MessagesResponses ==
    { Resp(200, EmptyList), Resp(200, JList(<<PendingMessage>>)),
      Resp(200, Enveloped(JList(<<PendingMessage>>))),
      Resp(401, OkErr("unauthorized")), Resp(200, Invalid), Timeout }

\* responses of POST /api/solana/send to the transfer named tag
TxHash(tag) == JStr("tx-" \o tag)
SendResponses(tag) ==
    { Resp(200, JObj([isError |-> JBool(FALSE), result |-> JObj([transactionHash |-> TxHash(tag)])])),
      Resp(200, JObj([isError |-> JBool(FALSE), result |-> EmptyObj])),
      Resp(200, OkErr("insufficient funds")),
      Resp(200, JObj([isError |-> JBool(TRUE), message |-> JStr("confirmation timed out"),
                      result |-> JObj([transactionHash |-> TxHash(tag)])])),
      Resp(200, JObj([isError |-> JBool(TRUE), message |-> JStr("insufficient funds"),
                      result |-> Null])),
      Resp(400, OkErr("insufficient funds")),
      Resp(502, Invalid),
      Timeout }

\* responses of the connectivity probe
ProbeResponses == { Resp(200, EmptyList), Resp(502, Invalid), Timeout }

-----------------------------------------------------------------------------
(* How a step of main ends.                                                 *)

Running(w, at) == wf = w /\ pc = at /\ exitCode = -1

\* main goes on with step next
Goto(next, evs) == pc' = next /\ trace' = trace \o evs /\ UNCHANGED exitCode
\* sys.exit(1)
Exit1(evs) == exitCode' = 1 /\ trace' = trace \o evs /\ UNCHANGED pc
\* an exception escapes from main: the __main__ guard prints it and exits 1
Crash(evs) ==
    exitCode' = 1 /\ trace' = trace \o evs \o <<Log("unexpected-error", "main")>> /\ UNCHANGED pc

IntegratedLocals == <<discovered_agents, agent_a_card, message_id, tx_hash>>
SolanaLocals == <<funding_success, payment_result>>
Env == <<wf, listAt, nops, given, openserv_agent_id>>

-----------------------------------------------------------------------------
(* main of a2a_integrated_payment_demo.py                                   *)

\* the API connectivity check
Integrated_Connect ==
    /\ Running("integrated", "connect")
    /\ \E r \in ProbeResponses :
         LET pre == <<Req("a2a/agents", "main", Null, Null)>> IN
         IF r.body.t = "exc" THEN Exit1(pre \o <<Log("cannot-reach-api", "main")>>)
         ELSE Goto("register-A", pre \o <<Log("api-reachable", "main")>>)
    /\ UNCHANGED <<sess, last, IntegratedLocals, SolanaLocals, Env>>

\* Step 1 / Step 3: register_avatar
Integrated_Register(a) ==
    /\ Running("integrated", "register-" \o a)
    /\ \E r \in RegisterOutputs(a) :
         LET o == A2AIntegratedClient_register_avatar(sess[a], a, UsernameOf(a), r) IN
         /\ last' = Seen(o, sess[a], r)
         /\ sess' = [sess EXCEPT ![a] = o.s]
         /\ IF o.raised THEN Crash(o.ev)
            ELSE IF ~Truthy(o.ret) THEN Exit1(o.ev)
            ELSE Goto("authenticate-" \o a, o.ev)
    /\ UNCHANGED <<IntegratedLocals, SolanaLocals, Env>>

\* variant of Integrated_Authenticate that goes on to the wallet step after a
\* failed authentication
Integrated_Authenticate_NoAbort(a) ==
    /\ Running("integrated", "authenticate-" \o a)
    /\ \E r \in AuthResponses(a) :
         LET o == A2AIntegratedClient_authenticate(sess[a], a, UsernameOf(a), r) IN
         /\ last' = Seen(o, sess[a], r)
         /\ sess' = [sess EXCEPT ![a] = o.s]
         /\ IF o.raised THEN Crash(o.ev) ELSE Goto("wallet-" \o a, o.ev)
    /\ UNCHANGED <<IntegratedLocals, SolanaLocals, Env>>

\* Step 1 / Step 3: authenticate
Integrated_Authenticate(a) ==
    /\ Running("integrated", "authenticate-" \o a)
    /\ \E r \in AuthResponses(a) :
         LET o == A2AIntegratedClient_authenticate(sess[a], a, UsernameOf(a), r) IN
         /\ last' = Seen(o, sess[a], r)
         /\ sess' = [sess EXCEPT ![a] = o.s]
         /\ IF o.raised THEN Crash(o.ev)
            ELSE IF ~Truthy(o.ret) THEN Exit1(o.ev)
            ELSE Goto("wallet-" \o a, o.ev)
    /\ UNCHANGED <<IntegratedLocals, SolanaLocals, Env>>

\* Step 1 / Step 3: create_solana_wallet
Integrated_CreateWallet(a) ==
    /\ Running("integrated", "wallet-" \o a)
    /\ \E r \in WalletResponses(a) :
         LET o == A2AIntegratedClient_create_solana_wallet(sess[a], a, r) IN
         /\ last' = Seen(o, sess[a], r)
         /\ sess' = [sess EXCEPT ![a] = o.s]
         /\ IF o.raised THEN Crash(o.ev)
            ELSE IF ~Truthy(o.ret) THEN Exit1(o.ev)
            ELSE Goto(IF a = "A" THEN "capabilities" ELSE "discover", o.ev)
    /\ UNCHANGED <<IntegratedLocals, SolanaLocals, Env>>

\* Step 2: register Agent A's capabilities (the result is not looked at)
Integrated_RegisterCapabilities ==
    /\ Running("integrated", "capabilities")
    /\ \E r \in CapabilityResponses :
         LET o == A2AIntegratedClient_register_capabilities(
                      sess["A"], "A", Services(<<"data-analysis", "ai-processing">>),
                      Pricing({"data-analysis", "ai-processing"}), r) IN
         /\ last' = Seen(o, sess["A"], r)
         /\ sess' = [sess EXCEPT !["A"] = o.s]
         /\ IF o.raised THEN Crash(o.ev) ELSE Goto("register-B", o.ev)
    /\ UNCHANGED <<IntegratedLocals, SolanaLocals, Env>>

\* lines 384-389: the first discovered agent whose agentId is id, or None
FindAgent(agents, id) ==
    LET hits == {i \in 1..Len(agents.l) : Get1(agents.l[i], "agentId") = id}
    IN  IF hits = {} THEN Null
        ELSE agents.l[CHOOSE i \in hits : \A j \in hits : i <= j]

\* variant of Integrated_AfterDiscovery that goes on to funding whether or not
\* Agent A is among the discovered agents
Integrated_AfterDiscovery_NoAbort(agents, evs) ==
    /\ agent_a_card' = (IF Truthy(agents) THEN FindAgent(agents, sess["A"].avatar_id) ELSE Null)
    /\ Goto("admin-auth", evs)

\* lines 380-398: what main does with the final discovery result
Integrated_AfterDiscovery(agents, evs) ==
    IF ~Truthy(agents)
    THEN /\ Exit1(evs \o <<Log("agent-a-not-found-via-discovery", "main")>>)
         /\ UNCHANGED agent_a_card
    ELSE LET card == FindAgent(agents, sess["A"].avatar_id) IN
         /\ agent_a_card' = card
         /\ IF ~Truthy(card)
            THEN Exit1(evs \o <<Log("agent-a-not-in-discovery-results", "main")>>)
            ELSE Goto("admin-auth", evs \o <<Log("found-agent-a", "main")>>)

\* Step 4: Agent B queries the registry for "data-analysis"
Integrated_Discover ==
    /\ Running("integrated", "discover")
    /\ \E r \in DiscoveryResponses(1) :
         LET o == A2AIntegratedClient_discover_agents_by_service(
                      sess["B"], "B", JStr("data-analysis"), r) IN
         /\ last' = Seen(o, sess["B"], r)
         /\ IF o.raised THEN Crash(o.ev) /\ UNCHANGED <<discovered_agents, agent_a_card>>
            ELSE /\ discovered_agents' = o.ret
                 /\ IF ~Truthy(o.ret)
                    THEN /\ Goto("retry", o.ev \o <<Log("no-agents-found-retrying", "main"), Sleep(2)>>)
                         /\ UNCHANGED agent_a_card
                    ELSE Integrated_AfterDiscovery(o.ret, o.ev)
    /\ UNCHANGED <<sess, message_id, tx_hash, SolanaLocals, Env>>

\* variant of Integrated_DiscoverRetry that waits and queries again for as long
\* as the result is empty
Integrated_DiscoverRetry_Again ==
    /\ Running("integrated", "retry")
    /\ \E r \in DiscoveryResponses(2) :
         LET o == A2AIntegratedClient_discover_agents_by_service(
                      sess["B"], "B", JStr("data-analysis"), r) IN
         /\ last' = Seen(o, sess["B"], r)
         /\ IF o.raised THEN Crash(o.ev) /\ UNCHANGED <<discovered_agents, agent_a_card>>
            ELSE /\ discovered_agents' = o.ret
                 /\ IF ~Truthy(o.ret)
                    THEN /\ Goto("retry", o.ev \o <<Log("no-agents-found-retrying", "main"), Sleep(2)>>)
                         /\ UNCHANGED agent_a_card
                    ELSE Integrated_AfterDiscovery(o.ret, o.ev)
    /\ UNCHANGED <<sess, message_id, tx_hash, SolanaLocals, Env>>

\* variant of Integrated_DiscoverRetry that goes on querying for as long as the
\* result is empty (the trace keeps the first of these queries only)
Integrated_DiscoverRetry_Forever ==
    /\ Running("integrated", "retry")
    /\ \E r \in DiscoveryResponses(2) :
         LET o == A2AIntegratedClient_discover_agents_by_service(
                      sess["B"], "B", JStr("data-analysis"), r) IN
         /\ last' = Seen(o, sess["B"], r)
         /\ IF o.raised THEN Crash(o.ev) /\ UNCHANGED <<discovered_agents, agent_a_card>>
            ELSE /\ discovered_agents' = o.ret
                 /\ IF ~Truthy(o.ret)
                    THEN UNCHANGED <<pc, exitCode, trace, agent_a_card>>
                    ELSE Integrated_AfterDiscovery(o.ret, o.ev)
    /\ UNCHANGED <<sess, message_id, tx_hash, SolanaLocals, Env>>

\* Step 4, lines 375-378: the query again, after the 2 s wait
Integrated_DiscoverRetry ==
    /\ Running("integrated", "retry")
    /\ \E r \in DiscoveryResponses(2) :
         LET o == A2AIntegratedClient_discover_agents_by_service(
                      sess["B"], "B", JStr("data-analysis"), r) IN
         /\ last' = Seen(o, sess["B"], r)
         /\ IF o.raised THEN Crash(o.ev) /\ UNCHANGED <<discovered_agents, agent_a_card>>
            ELSE /\ discovered_agents' = o.ret
                 /\ Integrated_AfterDiscovery(o.ret, o.ev)
    /\ UNCHANGED <<sess, message_id, tx_hash, SolanaLocals, Env>>

\* Step 5: authenticate the admin client; on success main sets its wallet address
Integrated_AdminAuthenticate ==
    /\ Running("integrated", "admin-auth")
    /\ \E r \in AuthResponses("admin") :
         LET o == A2AIntegratedClient_authenticate(sess["admin"], "admin", ADMIN_USERNAME, r) IN
         /\ last' = Seen(o, sess["admin"], r)
         /\ IF o.raised THEN Crash(o.ev) /\ UNCHANGED sess
            ELSE IF Truthy(o.ret)
            THEN /\ sess' = [sess EXCEPT !["admin"] =
                                 [o.s EXCEPT !.wallet_address = ADMIN_WALLET_ADDRESS]]
                 /\ Goto("fund-A", o.ev \o <<Log("funding-agent-A", "main")>>)
            ELSE /\ sess' = [sess EXCEPT !["admin"] = o.s]
                 /\ Goto("request", o.ev \o <<Log("admin-auth-failed-skipping-funding", "main"),
                                              Log("payment-will-fail-if-not-funded", "main")>>)
    /\ UNCHANGED <<IntegratedLocals, SolanaLocals, Env>>

\* variant of Integrated_Fund that goes on to the payment without the wait
Integrated_Fund_NoWait(a) ==
    /\ Running("integrated", "fund-" \o a)
    /\ \E r \in SendResponses("fund-" \o a) :
         LET o == A2AIntegratedClient_fund_wallet(sess["admin"], "admin",
                          sess[a].wallet_address, FUNDING_AMOUNT_SOL, r) IN
         /\ last' = Seen(o, sess["admin"], r)
         /\ IF o.raised THEN Crash(o.ev)
            ELSE IF a = "A" THEN Goto("fund-B", o.ev \o <<Log("funding-agent-B", "main")>>)
            ELSE Goto("request", o.ev \o <<Log("waiting-for-funding", "main")>>)
    /\ UNCHANGED <<sess, IntegratedLocals, SolanaLocals, Env>>

\* Step 5: fund Agent a's wallet from the admin wallet; the 30 s wait follows Agent B's
Integrated_Fund(a) ==
    /\ Running("integrated", "fund-" \o a)
    /\ \E r \in SendResponses("fund-" \o a) :
         LET o == A2AIntegratedClient_fund_wallet(sess["admin"], "admin",
                          sess[a].wallet_address, FUNDING_AMOUNT_SOL, r) IN
         /\ last' = Seen(o, sess["admin"], r)
         /\ IF o.raised THEN Crash(o.ev)
            ELSE IF a = "A" THEN Goto("fund-B", o.ev \o <<Log("funding-agent-B", "main")>>)
            ELSE Goto("request", o.ev \o <<Log("waiting-for-funding", "main"), Sleep(30)>>)
    /\ UNCHANGED <<sess, IntegratedLocals, SolanaLocals, Env>>

\* Step 6: Agent B sends the payment request over JSON-RPC
Integrated_PaymentRequest ==
    /\ Running("integrated", "request")
    /\ \E r \in RpcResponses, now \in Clock(trace) :
         LET o == A2AIntegratedClient_send_a2a_payment_request(
                      sess["B"], "B", sess["A"].avatar_id, JStr("payment-request"), now, r) IN
         /\ last' = Seen(o, sess["B"], r)
         /\ IF o.raised THEN Crash(o.ev) /\ UNCHANGED message_id
            ELSE /\ message_id' = o.ret
                 /\ Goto("poll", IF Truthy(o.ret) THEN o.ev
                                 ELSE o.ev \o <<Log("payment-request-failed-continuing", "main")>>)
    /\ UNCHANGED <<sess, discovered_agents, agent_a_card, tx_hash, SolanaLocals, Env>>

\* variant of Integrated_PollMessages that polls at once, without the 1 s wait
Integrated_PollMessages_NoDelay ==
    /\ Running("integrated", "poll")
    /\ \E r \in MessagesResponses :
         LET o == A2AIntegratedClient_get_pending_messages(sess["A"], "A", r) IN
         /\ last' = Seen(o, sess["A"], r)
         /\ IF o.raised THEN Crash(o.ev)
            ELSE Goto("transfer", o.ev \o
                          <<Log(IF Truthy(o.ret) THEN "pending-messages" ELSE "no-pending-messages",
                                "main")>>)
    /\ UNCHANGED <<sess, IntegratedLocals, SolanaLocals, Env>>

\* Step 7: Agent A polls its pending messages, after a 1 s wait
Integrated_PollMessages ==
    /\ Running("integrated", "poll")
    /\ \E r \in MessagesResponses :
         LET o == A2AIntegratedClient_get_pending_messages(sess["A"], "A", r) IN
         /\ last' = Seen(o, sess["A"], r)
         /\ IF o.raised THEN Crash(<<Sleep(1)>> \o o.ev)
            ELSE Goto("transfer", <<Sleep(1)>> \o o.ev \o
                          <<Log(IF Truthy(o.ret) THEN "pending-messages" ELSE "no-pending-messages",
                                "main")>>)
    /\ UNCHANGED <<sess, IntegratedLocals, SolanaLocals, Env>>

\* variant of Integrated_Transfer that goes to the summary whatever the transfer returned
Integrated_Transfer_NoConfirm ==
    /\ Running("integrated", "transfer")
    /\ \E r \in SendResponses("pay") :
         LET o == A2AIntegratedClient_send_solana_payment(
                      sess["B"], "B", sess["A"].wallet_address, PAYMENT_AMOUNT_SOL, r) IN
         /\ last' = Seen(o, sess["B"], r)
         /\ IF o.raised THEN Crash(o.ev) /\ UNCHANGED tx_hash
            ELSE /\ tx_hash' = o.ret
                 /\ Goto("summary", o.ev)
    /\ UNCHANGED <<sess, discovered_agents, agent_a_card, message_id, SolanaLocals, Env>>

\* Step 8: Agent B pays Agent A
Integrated_Transfer ==
    /\ Running("integrated", "transfer")
    /\ \E r \in SendResponses("pay") :
         LET o == A2AIntegratedClient_send_solana_payment(
                      sess["B"], "B", sess["A"].wallet_address, PAYMENT_AMOUNT_SOL, r) IN
         /\ last' = Seen(o, sess["B"], r)
         /\ IF o.raised THEN Crash(o.ev) /\ UNCHANGED tx_hash
            ELSE /\ tx_hash' = o.ret
                 /\ Goto(IF Truthy(o.ret) THEN "confirm" ELSE "summary", o.ev)
    /\ UNCHANGED <<sess, discovered_agents, agent_a_card, message_id, SolanaLocals, Env>>

\* Step 9: the confirmation message, sent only when the transfer gave a hash
Integrated_Confirm ==
    /\ Running("integrated", "confirm")
    /\ \E r \in RpcResponses, now \in Clock(trace) :
         LET o == A2AIntegratedClient_send_a2a_payment_request(
                      sess["B"], "B", sess["A"].avatar_id,
                      JStr("payment-confirmed:" \o tx_hash.s), now, r) IN
         /\ last' = Seen(o, sess["B"], r)
         /\ IF o.raised THEN Crash(o.ev)
            ELSE Goto("summary", IF Truthy(o.ret)
                                 THEN o.ev \o <<Log("payment-confirmation-sent", "main")>>
                                 ELSE o.ev)
    /\ UNCHANGED <<sess, IntegratedLocals, SolanaLocals, Env>>

\* lines 461-480: the summary; the payment line is printed only for a truthy tx_hash
Integrated_Summary ==
    /\ Running("integrated", "summary")
    /\ pc' = "done"
    /\ exitCode' = 0
    /\ trace' = trace \o <<Log("summary", "main")>>
                      \o (IF Truthy(tx_hash) THEN <<Log("payment-successful", "main")>> ELSE <<>>)
                      \o <<Log("demo-completed", "main")>>
    /\ UNCHANGED <<sess, last, IntegratedLocals, SolanaLocals, Env>>

IntegratedNext ==
    \/ Integrated_Connect
    \/ \E a \in {"A", "B"} : Integrated_Register(a)
    \/ \E a \in {"A", "B"} : Integrated_Authenticate(a)
    \/ \E a \in {"A", "B"} : Integrated_CreateWallet(a)
    \/ Integrated_RegisterCapabilities
    \/ Integrated_Discover
    \/ Integrated_DiscoverRetry
    \/ Integrated_AdminAuthenticate
    \/ \E a \in {"A", "B"} : Integrated_Fund(a)
    \/ Integrated_PaymentRequest
    \/ Integrated_PollMessages
    \/ Integrated_Transfer
    \/ Integrated_Confirm
    \/ Integrated_Summary

-----------------------------------------------------------------------------
(* main of a2a_solana_payment_demo.py                                       *)

\* the API connectivity check
Solana_Connect ==
    /\ Running("solana", "connect")
    /\ \E r \in ProbeResponses :
         LET pre == <<Req("health", "main", Null, Null)>> IN
         IF r.body.t = "exc" THEN Exit1(pre \o <<Log("cannot-reach-api", "main")>>)
         ELSE Goto("register-A", pre \o <<Log("api-reachable", "main")>>)
    /\ UNCHANGED <<sess, last, IntegratedLocals, SolanaLocals, Env>>

\* Step 1 / Step 4: register_avatar; main looks at avatar_id, not at the value returned
Solana_Register(a) ==
    /\ Running("solana", "register-" \o a)
    /\ \E c \in RegisterOutputs(a), r \in RegisterFallbackResponses(a) :
         LET o == OASISClient_register_avatar(sess[a], a, UsernameOf(a), c, r) IN
         /\ last' = Seen(o, sess[a], Decisive(o, c, r))
         /\ sess' = [sess EXCEPT ![a] = o.s]
         /\ IF o.raised THEN Crash(o.ev)
            ELSE IF o.s.avatar_id = Null
            THEN Exit1(o.ev \o <<Log("failed-to-create-agent", "main")>>)
            ELSE Goto("authenticate-" \o a, o.ev)
    /\ UNCHANGED <<IntegratedLocals, SolanaLocals, Env>>

\* Step 2 / Step 5: authenticate
Solana_Authenticate(a) ==
    /\ Running("solana", "authenticate-" \o a)
    /\ \E r \in AuthResponses(a) :
         LET o == OASISClient_authenticate(sess[a], a, UsernameOf(a), r) IN
         /\ last' = Seen(o, sess[a], r)
         /\ sess' = [sess EXCEPT ![a] = o.s]
         /\ IF o.raised THEN Crash(o.ev)
            ELSE IF ~Truthy(o.ret)
            THEN Exit1(o.ev \o <<Log("failed-to-authenticate-agent", "main")>>)
            ELSE Goto("wallet-" \o a, o.ev)
    /\ UNCHANGED <<IntegratedLocals, SolanaLocals, Env>>

\* where main goes once Agent a has a wallet address
Solana_AfterWallet(a) == IF a = "A" THEN "register-B" ELSE "admin-auth"

\* Step 3 / Step 6: create_solana_wallet; without an address the fallback follows
Solana_CreateWallet(a) ==
    /\ Running("solana", "wallet-" \o a)
    /\ \E r \in WalletResponses(a) :
         LET o == OASISClient_create_solana_wallet(sess[a], a, r) IN
         /\ last' = Seen(o, sess[a], r)
         /\ sess' = [sess EXCEPT ![a] = o.s]
         /\ IF o.raised THEN Crash(o.ev)
            ELSE IF ~Truthy(o.s.wallet_address)
            THEN Goto("wallets-" \o a, o.ev \o <<Log("no-address-fetching-wallets", "main")>>)
            ELSE Goto(Solana_AfterWallet(a), o.ev)
    /\ UNCHANGED <<IntegratedLocals, SolanaLocals, Env>>

\* variant of Solana_GetWallets that goes on whatever the fallback yields
Solana_GetWallets_NoAbort(a) ==
    /\ Running("solana", "wallets-" \o a)
    /\ \E r \in WalletsResponses(a) :
         LET o == OASISClient_get_wallets(sess[a], a, r) IN
         /\ last' = Seen(o, sess[a], r)
         /\ sess' = [sess EXCEPT ![a] = o.s]
         /\ IF o.raised THEN Crash(o.ev) ELSE Goto(Solana_AfterWallet(a), o.ev)
    /\ UNCHANGED <<IntegratedLocals, SolanaLocals, Env>>

\* Step 3 / Step 6: the get_wallets fallback, fatal when it yields no address either
Solana_GetWallets(a) ==
    /\ Running("solana", "wallets-" \o a)
    /\ \E r \in WalletsResponses(a) :
         LET o == OASISClient_get_wallets(sess[a], a, r) IN
         /\ last' = Seen(o, sess[a], r)
         /\ sess' = [sess EXCEPT ![a] = o.s]
         /\ IF o.raised THEN Crash(o.ev)
            ELSE IF ~Truthy(o.s.wallet_address)
            THEN Exit1(o.ev \o <<Log("failed-to-get-wallet-address", "main")>>)
            ELSE Goto(Solana_AfterWallet(a), o.ev)
    /\ UNCHANGED <<IntegratedLocals, SolanaLocals, Env>>

\* Step 7: authenticate as admin (ADMIN_PASSWORD is set)
Solana_AdminAuthenticate ==
    /\ Running("solana", "admin-auth")
    /\ \E r \in AuthResponses("admin") :
         LET o == OASISClient_authenticate(sess["admin"], "admin", ADMIN_USERNAME, r) IN
         /\ last' = Seen(o, sess["admin"], r)
         /\ sess' = [sess EXCEPT !["admin"] = o.s]
         /\ IF o.raised THEN Crash(o.ev) /\ UNCHANGED funding_success
            ELSE IF Truthy(o.ret)
            THEN /\ funding_success' = TRUE
                 /\ Goto("fund-A", o.ev \o <<Log("admin-authenticated", "main")>>)
            ELSE /\ UNCHANGED funding_success
                 /\ Goto("fund-A", o.ev \o <<Log("admin-authentication-failed", "main")>>)
    /\ UNCHANGED <<IntegratedLocals, payment_result, Env>>

\* what main prints after the funding block of Agent a; the 30 s wait follows Agent B's
Solana_AfterFund(a, evs) ==
    IF a = "A" THEN Goto("fund-B", evs)
    ELSE Goto("pay", evs \o <<Log("waiting-for-transactions", "main"), Sleep(30)>>)

\* Step 7: fund Agent a's wallet, or skip when the admin session has no token
Solana_Fund(a) ==
    /\ Running("solana", "fund-" \o a)
    /\ \/ /\ funding_success /\ Truthy(sess["admin"].token)
          /\ \E r \in SendResponses("fund-" \o a) :
               LET o == OASISClient_fund_wallet(sess["admin"], "admin",
                                sess[a].wallet_address, FUNDING_AMOUNT_SOL, r)
                   hash == Get1(Get(o.ret, "result", EmptyObj), "transactionHash") IN
               /\ last' = Seen(o, sess["admin"], r)
               /\ IF o.raised \/ hash.t = "raise" THEN Crash(o.ev)
                  ELSE Solana_AfterFund(a, o.ev \o
                           <<Log(IF Truthy(hash) THEN "funded-" \o a
                                 ELSE "funding-may-have-failed-" \o a, "main")>>)
       \/ /\ ~(funding_success /\ Truthy(sess["admin"].token))
          /\ UNCHANGED last
          /\ Solana_AfterFund(a,
                 IF a = "A"
                 THEN <<Log("cannot-fund-automatically", "main"),
                        Log("continuing-without-funding-payment-will-fail", "main")>>
                 ELSE <<Log("skipping-agent-B-funding", "main")>>)
    /\ UNCHANGED <<sess, IntegratedLocals, SolanaLocals, Env>>

\* Step 8: Agent A pays Agent B
Solana_Pay ==
    /\ Running("solana", "pay")
    /\ \E r \in SendResponses("pay") :
         LET o == OASISClient_send_solana_payment(sess["A"], "A",
                          sess["B"].wallet_address, PAYMENT_AMOUNT_SOL, Null, r) IN
         /\ last' = Seen(o, sess["A"], r)
         /\ IF o.raised THEN Crash(o.ev) /\ UNCHANGED payment_result
            ELSE payment_result' = o.ret /\ Goto("summary", o.ev)
    /\ UNCHANGED <<sess, IntegratedLocals, funding_success, Env>>

\* lines 475-503: the summary
Solana_Summary ==
    /\ Running("solana", "summary")
    /\ LET hash == Get1(Get(payment_result, "result", EmptyObj), "transactionHash")
           head == <<Log("summary", "main"), Log("summary-funded-A", "main"),
                     Log("summary-funded-B", "main")>>
       IN  IF hash.t = "raise" THEN Crash(head)
           ELSE /\ pc' = "done"
                /\ exitCode' = 0
                /\ trace' = trace \o head
                      \o <<Log(IF Truthy(hash) THEN "payment-successful"
                               ELSE "payment-may-have-failed", "main")>>
                      \o <<Log("demo-completed", "main")>>
    /\ UNCHANGED <<sess, last, IntegratedLocals, SolanaLocals, Env>>

SolanaNext ==
    \/ Solana_Connect
    \/ \E a \in {"A", "B"} : Solana_Register(a)
    \/ \E a \in {"A", "B"} : Solana_Authenticate(a)
    \/ \E a \in {"A", "B"} : Solana_CreateWallet(a)
    \/ \E a \in {"A", "B"} : Solana_GetWallets(a)
    \/ Solana_AdminAuthenticate
    \/ \E a \in {"A", "B"} : Solana_Fund(a)
    \/ Solana_Pay
    \/ Solana_Summary

-----------------------------------------------------------------------------
Init ==
    /\ wf \in {"integrated", "solana"}
    /\ pc = "connect"
    /\ exitCode = -1
    /\ sess = [a \in Actors |-> NewSession]
    /\ trace = <<>>
    /\ discovered_agents = Null
    /\ agent_a_card = Null
    /\ message_id = Null
    /\ tx_hash = Null
    /\ funding_success = FALSE
    /\ payment_result = Null
    /\ listAt \in (IF wf = "integrated" THEN {1, 2, 3} ELSE {1})
    /\ nops = 0
    /\ given = Null
    /\ openserv_agent_id = Null
    /\ last = NoCall

Next == IntegratedNext \/ SolanaNext

Spec == Init /\ [][Next]_vars

\* every remote call returns or times out and main then runs its next
\* statement: a step that can be taken is taken
FairSpec == Spec /\ WF_vars(Next)

-----------------------------------------------------------------------------
(* The client classes on their own: methods invoked in any order on one    *)
(* session (actor "A"), whatever the remote answers.                       *)

MaxOps == 2

ClientClasses ==
    {"A2AIntegratedClient", "OASISClient", "SERVDiscoveryDemo", "test_agent_nft_minting"}
\* the classes with a username and a wallet address in their session
PaymentClients == {"A2AIntegratedClient", "OASISClient"}

\* the sessions a client object can be in when a method is invoked on it
Sessions(cls) ==
    { s \in [token : {Null, JStr(""), JWT}, avatar_id : {Null, IdOf("A")},
             username : {Null, UsernameOf("A")}, wallet_address : {Null, WalletOf("A")}] :
        IF cls \notin PaymentClients
        THEN s.username = Null /\ s.wallet_address = Null
        ELSE (s.token # Null \/ s.wallet_address # Null) => s.username # Null }

ClientReady(classes) == wf \in classes /\ pc = "client" /\ nops < MaxOps

\* the invocation's outcome o, on response r, becomes the state of the session
ClientStep(o, r) ==
    /\ last' = Seen(o, sess["A"], r)
    /\ sess' = [sess EXCEPT !["A"] = o.s]
    /\ trace' = trace \o o.ev
    /\ nops' = nops + 1
    /\ UNCHANGED <<wf, pc, exitCode, listAt, given, openserv_agent_id,
                   IntegratedLocals, SolanaLocals>>

Client_Register ==
    /\ ClientReady(PaymentClients \cup {"test_agent_nft_minting"})
    /\ \E c \in RegisterOutputs("A"), r \in RegisterFallbackResponses("A") :
         CASE wf = "OASISClient" ->
                LET o == OASISClient_register_avatar(sess["A"], "A", UsernameOf("A"), c, r)
                IN  ClientStep(o, Decisive(o, c, r))
           [] wf = "A2AIntegratedClient" ->
                ClientStep(A2AIntegratedClient_register_avatar(sess["A"], "A", UsernameOf("A"), c), c)
           [] OTHER ->
                ClientStep(create_agent(sess["A"], "A", UsernameOf("A"), r), r)

Client_Authenticate ==
    /\ ClientReady(ClientClasses)
    /\ \E r \in AuthResponses("A") :
         ClientStep(CASE wf = "A2AIntegratedClient" ->
                           A2AIntegratedClient_authenticate(sess["A"], "A", UsernameOf("A"), r)
                      [] wf = "OASISClient" ->
                           OASISClient_authenticate(sess["A"], "A", UsernameOf("A"), r)
                      [] wf = "SERVDiscoveryDemo" ->
                           SERVDiscoveryDemo_authenticate(sess["A"], "A", UsernameOf("A"), r)
                      [] OTHER ->
                           authenticate_agent(sess["A"], "A", UsernameOf("A"), r), r)

Client_CreateWallet ==
    /\ ClientReady(PaymentClients)
    /\ \E r \in WalletResponses("A") :
         ClientStep(IF wf = "OASISClient"
                    THEN OASISClient_create_solana_wallet(sess["A"], "A", r)
                    ELSE A2AIntegratedClient_create_solana_wallet(sess["A"], "A", r), r)

Client_GetWallets ==
    /\ ClientReady({"OASISClient"})
    /\ \E r \in WalletsResponses("A") :
         ClientStep(OASISClient_get_wallets(sess["A"], "A", r), r)

Client_SendPayment ==
    /\ ClientReady(PaymentClients)
    /\ \E r \in SendResponses("pay"), to \in {WalletOf("B"), Null},
          from \in {Null, ADMIN_WALLET_ADDRESS} :
         ClientStep(IF wf = "OASISClient"
                    THEN OASISClient_send_solana_payment(sess["A"], "A", to,
                                                         PAYMENT_AMOUNT_SOL, from, r)
                    ELSE A2AIntegratedClient_send_solana_payment(sess["A"], "A", to,
                                                                 PAYMENT_AMOUNT_SOL, r), r)

\* the advertisements a caller may pass: the services, and a pricing table that
\* may name a service that is not among them
Advertisements ==
    { <<Services(<<"data-analysis">>), Pricing({"data-analysis"})>>,
      <<Services(<<"data-analysis", "ai-processing">>), Pricing({"data-analysis"})>>,
      <<Services(<<"data-analysis">>), Pricing({"data-analysis", "ai-processing"})>>,
      <<Services(<<>>), Pricing({})>> }

Client_RegisterCapabilities ==
    /\ ClientReady({"A2AIntegratedClient", "SERVDiscoveryDemo"})
    /\ \E r \in CapabilityResponses, ad \in Advertisements :
         ClientStep(IF wf = "SERVDiscoveryDemo"
                    THEN SERVDiscoveryDemo_register_capabilities(sess["A"], "A", ad[1], r)
                    ELSE A2AIntegratedClient_register_capabilities(sess["A"], "A", ad[1], ad[2], r),
                    r)

Client_RegisterService ==
    /\ ClientReady({"SERVDiscoveryDemo"})
    /\ \E r \in CapabilityResponses :
         ClientStep(SERVDiscoveryDemo_register_as_serv_service(sess["A"], "A", r), r)

\* what the registry may hold for a service: nothing, one agent, two agents
RegistryLists == { <<>>, <<OtherCard>>, <<OtherCard, Card(IdOf("A"))>> }

Client_Discover ==
    /\ ClientReady({"A2AIntegratedClient", "SERVDiscoveryDemo"})
    /\ \E r \in DiscoveryResponsesOf(RegistryLists) :
         \/ ClientStep(IF wf = "SERVDiscoveryDemo"
                       THEN SERVDiscoveryDemo_discover_agents_by_service(
                                sess["A"], "A", JStr("data-analysis"), r)
                       ELSE A2AIntegratedClient_discover_agents_by_service(
                                sess["A"], "A", JStr("data-analysis"), r), r)
         \/ /\ wf = "SERVDiscoveryDemo"
            /\ ClientStep(SERVDiscoveryDemo_discover_all_agents_via_serv(sess["A"], "A", r), r)

Client_PaymentRequest ==
    /\ ClientReady({"A2AIntegratedClient"})
    /\ \E r \in RpcResponses :
         ClientStep(A2AIntegratedClient_send_a2a_payment_request(
                        sess["A"], "A", IdOf("B"), JStr("payment-request"),
                        EarliestNow(trace), r), r)

Client_GetPendingMessages ==
    /\ ClientReady({"A2AIntegratedClient"})
    /\ \E r \in MessagesResponses :
         ClientStep(A2AIntegratedClient_get_pending_messages(sess["A"], "A", r), r)

ClientNext ==
    \/ Client_Register
    \/ Client_Authenticate
    \/ Client_CreateWallet
    \/ Client_GetWallets
    \/ Client_SendPayment
    \/ Client_RegisterCapabilities
    \/ Client_RegisterService
    \/ Client_Discover
    \/ Client_PaymentRequest
    \/ Client_GetPendingMessages

ClientInit ==
    /\ wf \in ClientClasses
    /\ pc = "client"
    /\ exitCode = -1
    /\ \E s \in Sessions(wf) : sess = [a \in Actors |-> IF a = "A" THEN s ELSE NewSession]
    /\ trace = <<>>
    /\ discovered_agents = Null
    /\ agent_a_card = Null
    /\ message_id = Null
    /\ tx_hash = Null
    /\ funding_success = FALSE
    /\ payment_result = Null
    /\ listAt = 1
    /\ nops = 0
    /\ given = Null
    /\ openserv_agent_id = Null
    /\ last = NoCall

ClientSpec == ClientInit /\ [][ClientNext]_vars

-----------------------------------------------------------------------------
(* Transfers of any amount, by a provisioned session of either payment      *)
(* client: send_solana_payment is applied to amounts between two lamports   *)
(* as well as to whole numbers of lamports.                                 *)

\* the amounts a caller may pass: nothing, less than half a lamport, half a
\* lamport, one lamport and a half, two and a half, just under three, the
\* demos' payment and funding amounts, and more than one SOL
Amounts ==
    {SOL(0, 0), SOL(0, 4), SOL(0, 5), SOL(0, 15), SOL(0, 25), SOL(0, 29),
     PAYMENT_AMOUNT_SOL, FUNDING_AMOUNT_SOL, SOL(1, 26)}

Client_Transfer ==
    /\ ClientReady(PaymentClients)
    /\ \E r \in SendResponses("pay"), amount_sol \in Amounts :
         ClientStep(IF wf = "OASISClient"
                    THEN OASISClient_send_solana_payment(sess["A"], "A", WalletOf("B"),
                                                         amount_sol, Null, r)
                    ELSE A2AIntegratedClient_send_solana_payment(sess["A"], "A", WalletOf("B"),
                                                                 amount_sol, r), r)

TransferInit ==
    /\ ClientInit
    /\ wf \in PaymentClients
    /\ sess["A"] = [token |-> JWT, avatar_id |-> IdOf("A"), username |-> UsernameOf("A"),
                    wallet_address |-> WalletOf("A")]

TransferSpec == TransferInit /\ [][Client_Transfer]_vars

-----------------------------------------------------------------------------
(* a2a_openserv_workflow_demo.py: OpenSERVWorkflowDemo and its main.  The   *)
(* object's token and agent_id are the token and avatar_id of session "A".  *)

\* authenticate (lines 72-90): the same statements as SERVDiscoveryDemo.authenticate
OpenSERVWorkflowDemo_authenticate(s, by, username, r) ==
    SERVDiscoveryDemo_authenticate(s, by, username, r)

\* register_openserv_agent: POST /api/a2a/openserv/register with
\* "apiKey": api_key in the payload and no Authorization header; ret.id is
\* what self.openserv_agent_id is afterwards
OpenSERVWorkflowDemo_register_openserv_agent(s, by, open_serv_agent_id, api_key, r) ==
    LET pre == <<Invoke("register_openserv_agent", by), Log("registering-openserv-agent", by),
                 Req("a2a/openserv/register", by, open_serv_agent_id, api_key)>>
    IN  IF r.body.t = "exc" \/ (r.status = 200 /\ ~HasJson(r))
        THEN Out(s, JBool(FALSE), pre \o <<Log("error-registering-openserv-agent", by)>>)
        ELSE IF r.status = 200
        THEN Out(s, JBool(TRUE), pre \o <<Log("openserv-agent-registered", by)>>)
        ELSE Out(s, JBool(FALSE), pre \o <<Log("openserv-agent-failed", by)>>)

\* execute_workflow: POST /api/a2a/workflow/execute with the bearer token
OpenSERVWorkflowDemo_execute_workflow(s, by, to_agent_id, r) ==
    LET pre == <<Invoke("execute_workflow", by), Log("executing-workflow", by),
                 Log("workflow-request", by),
                 Req("a2a/workflow/execute", by, to_agent_id, s.token)>>
    IN  IF r.body.t = "exc" \/ (r.status = 200 /\ ~HasJson(r))
        THEN Out(s, Null, pre \o <<Log("error-executing-workflow", by)>>)
        ELSE IF r.status = 200
        THEN Out(s, r.body, pre \o <<Log("workflow-executed", by)>>)
        ELSE Out(s, Null, pre \o <<Log("workflow-failed", by)>>)

\* get_agent_card: GET /api/a2a/agent-card/{agent_id}, whatever agent_id is
OpenSERVWorkflowDemo_get_agent_card(s, by, agent_id, r) ==
    LET pre == <<Invoke("get_agent_card", by), Log("retrieving-agent-card", by),
                 Req("a2a/agent-card", by, agent_id, Null)>>
    IN  IF r.body.t = "exc" \/ (r.status = 200 /\ ~HasJson(r))
        THEN Out(s, Null, pre \o <<Log("error-getting-agent-card", by)>>)
        ELSE IF r.status = 200
        THEN Out(s, r.body, pre \o <<Log("agent-card-retrieved", by)>>)
        ELSE Out(s, Null, pre \o <<Log("agent-card-failed", by)>>)

\* os.getenv of the two optional variables: absent, or set
Environments ==
    [TO_AGENT_ID : {Null, IdOf("B")}, OPENSERV_API_KEY : {Null, JStr("key")}]

\* os.getenv("OPENSERV_AGENT_ID", f"demo-agent-{...}")
DemoAgentId == JStr("demo-agent")

\* responses of GET /api/a2a/agent-card/{id}
AgentCardResponses ==
    { Resp(200, JObj([agentId |-> IdOf("B"),
                      metadata |-> JObj([openserv_agent_id |-> DemoAgentId])])),
      Resp(200, Card(IdOf("A"))),
      Resp(200, JList(<<Card(IdOf("A"))>>)),
      Resp(404, JObj([error |-> JStr("not found")])),
      Timeout }

\* responses of POST /api/a2a/workflow/execute
WorkflowResponses ==
    { Resp(200, JObj([result |-> JStr("summary")])),
      Resp(200, JList(<<JStr("summary")>>)),
      Resp(500, OkErr("workflow failed")),
      Timeout }

\* an exception escapes from main: the interpreter prints the traceback, exit 1
Traceback(evs) == Exit1(evs \o <<Log("traceback", "main")>>)

OpenServLocals == <<listAt, nops, given, discovered_agents, agent_a_card, message_id,
                    tx_hash, funding_success, payment_result>>

\* Step 1
OpenServ_Authenticate ==
    /\ Running("openserv", "authenticate")
    /\ \E r \in AuthResponses("A") :
         LET o == OpenSERVWorkflowDemo_authenticate(sess["A"], "A", UsernameOf("A"), r)
         IN  /\ sess' = [sess EXCEPT !["A"] = o.s]
             /\ last' = Seen(o, sess["A"], r)
             /\ IF Truthy(o.ret)
                THEN Goto("register", o.ev)
                ELSE Exit1(o.ev \o <<Log("authentication-failed", "main")>>)
    /\ UNCHANGED <<wf, openserv_agent_id, OpenServLocals>>

\* Step 2: only `if not to_agent_id`
OpenServ_Register ==
    /\ Running("openserv", "register")
    /\ IF Truthy(given.TO_AGENT_ID)
       THEN Goto("agent-card", <<>>) /\ UNCHANGED <<openserv_agent_id, last>>
       ELSE \E r \in CapabilityResponses :
              LET o == OpenSERVWorkflowDemo_register_openserv_agent(
                           sess["A"], "A", DemoAgentId, given.OPENSERV_API_KEY, r)
              IN  /\ last' = Seen(o, sess["A"], r)
                  /\ IF Truthy(o.ret)
                     THEN /\ openserv_agent_id' = DemoAgentId
                          /\ Goto("agent-card", o.ev \o <<Sleep(1)>>)
                     ELSE /\ UNCHANGED openserv_agent_id
                          /\ Goto("agent-card",
                                  o.ev \o <<Log("warning-registration-failed", "main")>>)
    /\ UNCHANGED <<wf, sess, OpenServLocals>>

\* Step 3: only `if to_agent_id or demo.openserv_agent_id`; the card is read
\* with .get, its metadata too
OpenServ_AgentCard ==
    /\ Running("openserv", "agent-card")
    /\ IF ~Truthy(PyOr(given.TO_AGENT_ID, openserv_agent_id))
       THEN Goto("workflow", <<>>) /\ UNCHANGED last
       ELSE \E r \in AgentCardResponses :
              LET agent_id == PyOr(given.TO_AGENT_ID, sess["A"].avatar_id)
                  o == OpenSERVWorkflowDemo_get_agent_card(sess["A"], "A", agent_id, r)
                  metadata == Get(o.ret, "metadata", EmptyObj)
                  named == Get1(metadata, "openserv_agent_id")
              IN  /\ last' = Seen(o, sess["A"], r)
                  /\ IF ~Truthy(o.ret) THEN Goto("workflow", o.ev)
                     ELSE IF metadata.t = "raise" \/ named.t = "raise" THEN Traceback(o.ev)
                     ELSE IF Truthy(named)
                     THEN Goto("workflow", o.ev \o <<Log("openserv-agent-info", "main")>>)
                     ELSE Goto("workflow", o.ev)
    /\ UNCHANGED <<wf, sess, openserv_agent_id, OpenServLocals>>

\* Step 4: target_agent_id = to_agent_id or demo.agent_id
OpenServ_Workflow ==
    /\ Running("openserv", "workflow")
    /\ LET target_agent_id == PyOr(given.TO_AGENT_ID, sess["A"].avatar_id)
       IN  IF ~Truthy(target_agent_id)
           THEN /\ Goto("summary", <<Log("warning-no-target-agent", "main")>>)
                /\ UNCHANGED last
           ELSE \E r \in WorkflowResponses :
                  LET o == OpenSERVWorkflowDemo_execute_workflow(
                               sess["A"], "A", target_agent_id, r)
                  IN  /\ last' = Seen(o, sess["A"], r)
                      /\ IF ~Truthy(o.ret) THEN Goto("summary", o.ev)
                         ELSE IF Get(o.ret, "result", o.ret).t = "raise"
                         THEN Traceback(o.ev)
                         ELSE Goto("summary", o.ev \o <<Log("workflow-result", "main")>>)
    /\ UNCHANGED <<wf, sess, openserv_agent_id, OpenServLocals>>

OpenServ_Summary ==
    /\ Running("openserv", "summary")
    /\ pc' = "done"
    /\ exitCode' = 0
    /\ trace' = trace \o <<Log("summary", "main"), Log("demo-completed", "main")>>
    /\ UNCHANGED <<wf, sess, last, openserv_agent_id, OpenServLocals>>

OpenServInit ==
    /\ wf = "openserv"
    /\ pc = "authenticate"
    /\ exitCode = -1
    /\ sess = [a \in Actors |-> NewSession]
    /\ trace = <<>>
    /\ discovered_agents = Null
    /\ agent_a_card = Null
    /\ message_id = Null
    /\ tx_hash = Null
    /\ funding_success = FALSE
    /\ payment_result = Null
    /\ listAt = 1
    /\ nops = 0
    /\ given \in Environments
    /\ openserv_agent_id = Null
    /\ last = NoCall

OpenServNext ==
    \/ OpenServ_Authenticate
    \/ OpenServ_Register
    \/ OpenServ_AgentCard
    \/ OpenServ_Workflow
    \/ OpenServ_Summary

OpenServSpec == OpenServInit /\ [][OpenServNext]_vars

-----------------------------------------------------------------------------
(* The two provisioning sequences of a main (register, authenticate,        *)
(* create-wallet, and get_wallets in the solana main) run as two tasks: pc  *)
(* holds the position of each task, and `given` the answers the remote has  *)
(* for each agent, whatever the order in which the requests arrive.         *)

Agents == {"A", "B"}

\* the answers the remote has for Agent a: curl's output and the fallback's
\* response for the registration, and one response for each later request; an
\* answer that is never asked for (a fallback after a usable output, a wallet
\* list after an address) is the first of its kind
Answers(a) ==
    LET usable == Resp(0, JObj([statusCode |-> JNum(200),
                                result |-> JObj([isError |-> JBool(FALSE),
                                                 result |-> JObj([id |-> IdOf(a)])])]))
        registered == Resp(200, JObj([result |-> JObj([isError |-> JBool(FALSE),
                                                        result |-> JObj([id |-> IdOf(a)])])]))
        address == Resp(200, JObj([isError |-> JBool(FALSE),
                                   result |-> JObj([walletAddress |-> WalletOf(a)])]))
        listed == Resp(200, JObj([isError |-> JBool(FALSE),
                                  result |-> JObj([SolanaOASIS |->
                                      JList(<<JObj([walletAddress |-> WalletOf(a)])>>)])]))
    IN  { o \in [register : {usable, Resp(0, Invalid)},
                 fallback : {registered, Resp(502, Invalid)},
                 authenticate : {Resp(200, JObj([isError |-> JBool(FALSE),
                                                 result |-> JObj([jwtToken |-> JWT,
                                                                  id |-> IdOf(a)])])),
                                 Resp(401, OkErr("unauthorized"))},
                 wallet : {address,
                           Resp(200, JObj([isError |-> JBool(FALSE), result |-> EmptyObj])),
                           Resp(400, OkErr("bad request"))},
                 wallets : {listed,
                            Resp(200, JObj([isError |-> JBool(FALSE),
                                            result |-> JObj([SolanaOASIS |-> EmptyList])]))}] :
            /\ o.register = usable => o.fallback = registered
            /\ o.wallet = address => o.wallets = listed }

\* one step of Agent a's sequence in main w: the method invoked on the session
\* s at position at, what main prints after it, and where the task is next
\* ("ready": the agent is provisioned; "aborted": sys.exit(1) or an exception)
Provisioning(w, a, at, s, o) ==
    LET m == CASE w = "integrated" /\ at = "register" ->
                    A2AIntegratedClient_register_avatar(s, a, UsernameOf(a), o.register)
              [] w = "integrated" /\ at = "authenticate" ->
                    A2AIntegratedClient_authenticate(s, a, UsernameOf(a), o.authenticate)
              [] w = "integrated" /\ at = "wallet" ->
                    A2AIntegratedClient_create_solana_wallet(s, a, o.wallet)
              [] w = "solana" /\ at = "register" ->
                    OASISClient_register_avatar(s, a, UsernameOf(a), o.register, o.fallback)
              [] w = "solana" /\ at = "authenticate" ->
                    OASISClient_authenticate(s, a, UsernameOf(a), o.authenticate)
              [] w = "solana" /\ at = "wallet" ->
                    OASISClient_create_solana_wallet(s, a, o.wallet)
              [] w = "solana" /\ at = "wallets" ->
                    OASISClient_get_wallets(s, a, o.wallets)
        r == IF at = "register" THEN Decisive(m, o.register, o.fallback) ELSE o[at]
        failed == CASE w = "integrated" -> ~Truthy(m.ret)
                    [] at = "register" -> m.s.avatar_id = Null
                    [] at = "authenticate" -> ~Truthy(m.ret)
                    [] OTHER -> ~Truthy(m.s.wallet_address)
        said == CASE m.raised -> <<Log("unexpected-error", "main")>>
                  [] w = "integrated" \/ ~failed -> <<>>
                  [] at = "register" -> <<Log("failed-to-create-agent", "main")>>
                  [] at = "authenticate" -> <<Log("failed-to-authenticate-agent", "main")>>
                  [] at = "wallet" -> <<Log("no-address-fetching-wallets", "main")>>
                  [] OTHER -> <<Log("failed-to-get-wallet-address", "main")>>
        next == CASE m.raised -> "aborted"
                  [] failed /\ w = "solana" /\ at = "wallet" -> "wallets"
                  [] failed -> "aborted"
                  [] at = "register" -> "authenticate"
                  [] at = "authenticate" -> "wallet"
                  [] OTHER -> "ready"
    IN  [s |-> m.s, ev |-> m.ev \o said, next |-> next, seen |-> Seen(m, s, r)]

\* Agent a's sequence run from position at to its end, nothing else running:
\* the session it ends in and whether it ends ready or aborted
RECURSIVE Provision(_, _, _, _, _)
Provision(w, a, at, s, o) ==
    IF at \in {"ready", "aborted"} THEN [s |-> s, at |-> at]
    ELSE LET n == Provisioning(w, a, at, s, o) IN Provision(w, a, n.next, n.s, o)

\* the task of Agent a is at position at and the process has not exited
Task(a, at) == wf \in {"integrated", "solana"} /\ exitCode = -1 /\ pc[a] = at

\* variant of Parallel_Provision in which the two tasks work on one client object
Parallel_Provision_Shared(a) ==
    /\ \E at \in {"register", "authenticate", "wallet", "wallets"} :
         /\ Task(a, at)
         /\ LET n == Provisioning(wf, a, at, sess[a], given[a])
            IN  /\ sess' = [b \in Actors |-> IF b \in Agents THEN n.s ELSE sess[b]]
                /\ trace' = trace \o n.ev
                /\ pc' = [pc EXCEPT ![a] = n.next]
                /\ exitCode' = IF n.next = "aborted" THEN 1 ELSE -1
                /\ last' = n.seen
    /\ UNCHANGED <<wf, listAt, nops, given, openserv_agent_id, IntegratedLocals, SolanaLocals>>

\* the task of Agent a runs its next step on Agent a's client object; a failed
\* step ends the process
Parallel_Provision(a) ==
    /\ \E at \in {"register", "authenticate", "wallet", "wallets"} :
         /\ Task(a, at)
         /\ LET n == Provisioning(wf, a, at, sess[a], given[a])
            IN  /\ sess' = [sess EXCEPT ![a] = n.s]
                /\ trace' = trace \o n.ev
                /\ pc' = [pc EXCEPT ![a] = n.next]
                /\ exitCode' = IF n.next = "aborted" THEN 1 ELSE -1
                /\ last' = n.seen
    /\ UNCHANGED <<wf, listAt, nops, given, openserv_agent_id, IntegratedLocals, SolanaLocals>>

ParallelInit ==
    /\ wf \in {"integrated", "solana"}
    /\ pc = [a \in Agents |-> "register"]
    /\ exitCode = -1
    /\ sess = [a \in Actors |-> NewSession]
    /\ trace = <<>>
    /\ discovered_agents = Null
    /\ agent_a_card = Null
    /\ message_id = Null
    /\ tx_hash = Null
    /\ funding_success = FALSE
    /\ payment_result = Null
    /\ listAt = 1
    /\ nops = 0
    /\ given \in [Agents -> UNION {Answers(a) : a \in Agents}]
    /\ \A a \in Agents : given[a] \in Answers(a)
    /\ openserv_agent_id = Null
    /\ last = NoCall

ParallelNext == \E a \in Agents : Parallel_Provision(a)

ParallelSpec == ParallelInit /\ [][ParallelNext]_vars

-----------------------------------------------------------------------------
(* Reading the trace.                                                       *)

Reqs(tr, op) == At(tr, "req", op)
Logs(tr, op) == At(tr, "log", op)
\* the latest invocation was of method op
LastIs(op) == last.ev # <<>> /\ last.ev[1].ev = "invoke" /\ last.ev[1].op = op

Exited == exitCode = 1
Done == exitCode = 0

\* the phase of the canonical sequence an event of the integrated run belongs to
\* (0 Start, 1 Provisioning, 2 Discovery, 3 Funding, 4 Messaging, 5 Settlement,
\*  6 Confirmation, 7 Summary), or -1 for an event that is no step of a phase
Phase(e) ==
    CASE e.ev = "req" /\ e.op = "a2a/agents" -> 0
      [] e.ev = "req" /\ e.by \in {"A", "B"}
             /\ e.op \in {"avatar/register", "avatar/authenticate", "wallet/create-wallet",
                          "a2a/agent/capabilities"} -> 1
      [] e.ev = "req" /\ e.op = "a2a/agents/by-service" -> 2
      [] e.ev = "req" /\ e.by = "admin" -> 3
      [] e.ev = "req" /\ e.op = "a2a/jsonrpc" /\ e.y = JStr("payment-request") -> 4
      [] e.ev = "req" /\ e.op = "a2a/messages" -> 4
      [] e.ev = "req" /\ e.op = "solana/send" /\ e.by # "admin" -> 5
      [] e.ev = "req" /\ e.op = "a2a/jsonrpc" /\ e.y # JStr("payment-request") -> 6
      [] e.ev = "log" /\ e.by = "main"
             /\ e.op \in {"summary", "payment-successful", "demo-completed"} -> 7
      [] OTHER -> 0 - 1

InPhase(tr, n) == {i \in 1..Len(tr) : Phase(tr[i]) = n}
ReqBy(tr, op, a) == {i \in Reqs(tr, op) : tr[i].by = a}

-----------------------------------------------------------------------------
(* C1: in the integrated payment workflow the remote operations occur only  *)
(* in the canonical phase order: no step of a later phase comes before a    *)
(* step of an earlier one; both agents' register, authenticate and          *)
(* create-wallet calls precede the first discovery query; discovery has     *)
(* found Agent A before any funding transfer or payment-request message;    *)
(* the payment request and the poll precede the payment transfer; the       *)
(* confirmation follows the transfer; the summary comes last.               *)
C1_PhaseOrder ==
    wf = "integrated" =>
      LET ph == [i \in 1..Len(trace) |-> Phase(trace[i])]
          at(n) == {i \in 1..Len(trace) : ph[i] = n}
          steps == {i \in 1..Len(trace) : ph[i] >= 0}
      IN
      /\ \A j \in steps : \A i \in steps : i < j => ph[i] <= ph[j]
      /\ \A j \in at(2) : \A a \in {"A", "B"} :
           \A op \in {"avatar/register", "avatar/authenticate", "wallet/create-wallet"} :
              \E i \in ReqBy(trace, op, a) : i < j
      /\ \A j \in steps : ph[j] >= 3 =>
           /\ Truthy(agent_a_card)
           /\ \E i \in Logs(trace, "found-agent-a") : i < j
      /\ \A j \in at(5) :
           /\ \E i \in at(4) : i < j /\ trace[i].op = "a2a/jsonrpc"
           /\ \E i \in at(4) : i < j /\ trace[i].op = "a2a/messages"
      /\ \A j \in at(6) : \E i \in at(5) : i < j
      /\ at(7) # {} => Done /\ ph[Len(trace)] = 7

\* a complete integrated run: funded, requested, polled, paid, confirmed, summarised
C1_Witness ==
    /\ wf = "integrated" /\ Done
    /\ InPhase(trace, 6) # {}
    /\ Cardinality(InPhase(trace, 3)) = 3
    /\ Cardinality(InPhase(trace, 2)) = 2

-----------------------------------------------------------------------------
(* Failures of the REQUIRED steps, read off the trace.                      *)

\* positions where a client method of Agent A or B reports that register or
\* authenticate failed
ProvisionFailures(tr) ==
    {i \in 1..Len(tr) :
        /\ tr[i].ev = "log" /\ tr[i].by \in {"A", "B"}
        /\ tr[i].op \in {"registration-failed", "curl-and-requests-failed",
                         "authentication-failed"}}

\* positions where create_solana_wallet of Agent A or B reports failure
CreateWalletFailures(tr) ==
    {i \in 1..Len(tr) :
        /\ tr[i].ev = "log" /\ tr[i].by \in {"A", "B"}
        /\ \/ tr[i].op = "wallet-creation-failed"
           \/ /\ tr[i].op = "must-authenticate-first"
              /\ i > 1 /\ tr[i - 1] = Invoke("create_solana_wallet", tr[i].by)}

\* positions where main finds that discovery did not yield Agent A
DiscoveryFailures(tr) ==
    Logs(tr, "agent-a-not-found-via-discovery") \cup Logs(tr, "agent-a-not-in-discovery-results")

\* no request is issued after position i
NoReqAfter(tr, i) == \A j \in (i + 1)..Len(tr) : tr[j].ev # "req"

\* C2 as stated: a failure of register, authenticate or create-wallet for
\* Agent A or B, or a discovery without Agent A, aborts the run (exit 1) with
\* no remote call after it; an aborted or summarised run takes no further step.
C2_Original ==
    /\ \A i \in ProvisionFailures(trace) \cup CreateWalletFailures(trace)
                  \cup DiscoveryFailures(trace) :
          Exited /\ NoReqAfter(trace, i)
    /\ exitCode # -1 => ~ENABLED Next

\* C2, amended: register and authenticate failures and a discovery without
\* Agent A abort the run with no remote call after them, and so does a
\* create-wallet failure in the integrated workflow; in the Solana workflow a
\* create-wallet failure is followed by the get_wallets fallback only, and the
\* run aborts when the session still has no wallet address after it, and goes
\* on when the fallback found one; an aborted or summarised run takes no
\* further step.
C2_AbortOnRequiredFailure ==
    /\ \A i \in ProvisionFailures(trace) \cup DiscoveryFailures(trace)
                  \cup Logs(trace, "failed-to-get-wallet-address") :
          Exited /\ NoReqAfter(trace, i)
    /\ \A i \in CreateWalletFailures(trace) :
          LET a == trace[i].by IN
          IF wf = "integrated" THEN Exited /\ NoReqAfter(trace, i)
          ELSE /\ pc = "wallets-" \o a
                    \/ (Exited /\ LastIs("get_wallets"))
                    \/ \E k \in Logs(trace, "found-wallets") : k > i /\ trace[k].by = a
               /\ \A j \in (i + 1)..Len(trace) :
                     (trace[j].ev = "req" /\ ~(trace[j].op = "wallet/wallets" /\ trace[j].by = a))
                        => /\ Truthy(sess[a].wallet_address)
                           /\ \E k \in Logs(trace, "found-wallets") :
                                 i < k /\ k < j /\ trace[k].by = a
    /\ exitCode # -1 => ~ENABLED Next

\* the Solana run aborted after create-wallet failed for Agent B and the
\* fallback found no wallet either
C2_Witness ==
    /\ wf = "solana" /\ Exited /\ pc = "wallets-B"
    /\ \E i \in CreateWalletFailures(trace) : trace[i].by = "B"
    /\ Logs(trace, "failed-to-get-wallet-address") # {}

-----------------------------------------------------------------------------
(* Transfers.                                                               *)

\* positions of the requests to the payment endpoint
Sends(tr) == Reqs(tr, "solana/send")
\* positions where send_solana_payment is entered
SendInvocations(tr) == At(tr, "invoke", "send_solana_payment")

\* C3: a transfer is never retried automatically: an invocation of
\* send_solana_payment submits at most one request to the payment endpoint,
\* and a workflow run submits at most one payment transfer between the agents
\* and at most one funding transfer per agent wallet, failed or not.
C3_NoTransferRetry ==
    /\ Cardinality(Sends(last.ev)) <= 1
    /\ \A i, j \in Sends(trace) :
          i < j => \E k \in SendInvocations(trace) : i < k /\ k < j
    /\ Cardinality({i \in Sends(trace) : trace[i].by # "admin"}) <= 1
    /\ \A a \in {"A", "B"} :
          Cardinality({i \in Sends(trace) : trace[i].by = "admin" /\ trace[i].y = WalletOf(a)}) <= 1
    /\ \A i \in Sends(trace) : trace[i].by = "admin" => trace[i].y \in {WalletOf("A"), WalletOf("B")}

\* a finished run in which both funding transfers and the payment transfer were
\* submitted and the payment transfer was reported as failed
C3_Witness ==
    /\ Done
    /\ Cardinality(Sends(trace)) = 3
    /\ \E i \in Logs(trace, "payment-failed") : trace[i].by # "admin"

\* C4: every transfer request names a non-null fromWallet: send_solana_payment
\* invoked on a session without a wallet address (and without an explicit
\* from-wallet argument) submits nothing and returns a failure value.
C4_FromWalletNonNull ==
    /\ \A i \in Sends(trace) : trace[i].x # Null /\ Truthy(trace[i].x)
    /\ (LastIs("send_solana_payment") /\ last.s.wallet_address = Null /\ last.ev[1].x = Null)
          => /\ Sends(last.ev) = {}
             /\ ~last.raised
             /\ ~Truthy(last.ret)

\* send_solana_payment was invoked on an authenticated session without a wallet
\* address and with no explicit from-wallet
C4_Witness ==
    /\ LastIs("send_solana_payment")
    /\ Truthy(last.s.token) /\ last.s.wallet_address = Null
    /\ last.ev[1].x = Null /\ last.ev[1].y = WalletOf("B")

-----------------------------------------------------------------------------
(* The summary.                                                             *)

\* positions where the payer's send_solana_payment reports the transfer as sent
\* and as failed
PaymentSent(tr) == {i \in Logs(tr, "payment-sent") : tr[i].by # "admin"}
PaymentFailed(tr) == {i \in Logs(tr, "payment-failed") \cup Logs(tr, "invalid-json-response") :
                         tr[i].by # "admin"}

\* C5 as stated: the summary reports the payment as successful only if the
\* payment transfer returned a non-empty transaction hash; when the transfer
\* failed, was not submitted or returned no hash, the summary has no
\* payment-successful report.
C5_SuccessOnlyWithHash ==
    Logs(trace, "payment-successful") # {} =>
       /\ PaymentSent(trace) # {}
       /\ PaymentFailed(trace) = {}
       /\ \E i \in Sends(trace) : trace[i].by # "admin"

\* C6 as stated: whenever the payment transfer fails, the summary explicitly
\* reports the payment as failed.
C6_FailureReported ==
    (Done /\ PaymentSent(trace) = {}) =>
       \E i \in 1..Len(trace) :
          /\ trace[i].ev = "log" /\ trace[i].by = "main"
          /\ trace[i].op \in {"payment-may-have-failed", "payment-failed"}
          /\ \E k \in Logs(trace, "summary") : k < i

-----------------------------------------------------------------------------
(* Discovery.                                                               *)

\* positions of the findByService queries
Queries(tr) == Reqs(tr, "a2a/agents/by-service")

\* C7: discovery retry is bounded: the integrated workflow issues at most two
\* findByService queries per run; the second is issued only after the fixed
\* delay and only if the first returned an empty result; if the second is
\* also empty the run aborts.
C7_BoundedRetry ==
    wf = "integrated" =>
       /\ Cardinality(Queries(trace)) <= 2
       /\ (pc = "retry" /\ Cardinality(Queries(trace)) = 1) =>
             /\ ~Truthy(discovered_agents)
             /\ trace[Len(trace)] = Sleep(2)
       /\ \A i, j \in Queries(trace) : i < j =>
             /\ trace[j - 2] = Sleep(2)
             /\ trace[j - 3] = Log("no-agents-found-retrying", "main")
             /\ \A k \in (i + 1)..(j - 4) : trace[k] = Log("found-agents", "B")
       /\ (Cardinality(Queries(trace)) = 2 /\ ~Truthy(discovered_agents)) =>
             /\ Exited /\ pc = "retry"
             /\ NoReqAfter(trace, CHOOSE j \in Queries(trace) : \A i \in Queries(trace) : i <= j)

\* the run aborted after two queries that both came back empty
C7_Witness ==
    /\ wf = "integrated" /\ Exited
    /\ Cardinality(Queries(trace)) = 2
    /\ Logs(trace, "agent-a-not-found-via-discovery") # {}

\* the registry answered every query (with its listing at the time)
QueriesAnswered(tr) ==
    \A i \in Queries(tr) : i < Len(tr) /\ tr[i + 1] = Log("found-agents", "B")

\* the discovery step of the integrated main is over
DiscoveryEnded ==
    \/ pc \in {"discover", "retry"} /\ Exited
    \/ pc \in {"admin-auth", "fund-A", "fund-B", "request", "poll", "transfer",
               "confirm", "summary", "done"}

\* C8 as stated: if Agent A has published "data-analysis" and the registry
\* lists Agent A no later than the retry query, the discovery step ends with a
\* result set containing Agent A's identifier after at most one retry,
\* whatever the first query returned.
C8_FindsAgentA ==
    (/\ wf = "integrated"
     /\ Logs(trace, "capabilities-registered") # {}
     /\ listAt <= 2
     /\ DiscoveryEnded
     /\ QueriesAnswered(trace))
       => /\ IsList(discovered_agents)
          /\ Truthy(FindAgent(discovered_agents, IdOf("A")))
          /\ Cardinality(Queries(trace)) <= 2

-----------------------------------------------------------------------------
(* Funding.                                                                 *)

\* C9 as stated: funding is optional: after a failed admin authentication no
\* funding transfer is submitted, the run logs that the payment is likely to
\* fail and goes on; neither a failed admin authentication nor a failed
\* funding transfer aborts the run.
C9_FundingOptional ==
    /\ (\E i \in Logs(trace, "authentication-failed") : trace[i].by = "admin") =>
          /\ \A i \in Sends(trace) : trace[i].by # "admin"
          /\ Logs(trace, "payment-will-fail-if-not-funded") # {}
               \/ Logs(trace, "continuing-without-funding-payment-will-fail") # {}
               \/ pc = "fund-A"
    /\ ~(Exited /\ pc \in {"admin-auth", "fund-A", "fund-B"})

-----------------------------------------------------------------------------
(* Authentication.                                                          *)

\* C10 as stated: whenever authenticate reports success, for any client class
\* and any remote response, the session's bearer token is non-null and
\* non-empty afterwards.
C10_TokenAfterAuthenticate ==
    (LastIs("authenticate") /\ last.ret = JBool(TRUE)) =>
       /\ last.s.token # Null
       /\ Truthy(last.s.token)
       /\ sess["A"].token = last.s.token

-----------------------------------------------------------------------------
(* Response envelopes, as the claims about them read a response.            *)

\* isError is true at some level of the envelope: the node itself or, while a
\* node has a result key, the node under it
AnyIsError(v) ==
    LET RECURSIVE walk(_)
        walk(n) == /\ IsDict(n)
                   /\ \/ Truthy(Get(n, "isError", JBool(FALSE)))
                      \/ "result" \in DOMAIN n.o /\ walk(n.o["result"])
    IN  walk(v)

\* the node the token and the identifier are carried in: the result, or the
\* result of the result
Innermost(v) ==
    LET outer == Get(v, "result", Null)
        inner == Get(outer, "result", Null)
    IN  IF IsDict(inner) THEN inner ELSE outer

\* the token a successful authenticate response carries, under jwtToken or token
CarriedToken(r) ==
    IF r.status = 200 /\ HasJson(r) /\ IsDict(r.body) /\ ~AnyIsError(r.body)
          /\ IsDict(Innermost(r.body))
    THEN PyOr(Get1(Innermost(r.body), "jwtToken"), Get1(Innermost(r.body), "token"))
    ELSE Null

\* C11 as stated: authenticate reports failure whenever the HTTP status is
\* non-2xx or isError is true at any level of the response envelope, and then
\* stores no token (read here for the responses whose body is JSON).
C11_FailureOnAnyIsError ==
    (/\ LastIs("authenticate")
     /\ HasJson(last.r)
     /\ last.r.status \notin 200..299 \/ AnyIsError(last.r.body))
       => /\ last.ret = JBool(FALSE)
          /\ last.s.token = last.pre.token \/ ~Truthy(last.s.token)

\* C12 as stated: for a successful response carrying the token under jwtToken
\* or under token, in the single-nested or the double-nested envelope,
\* authenticate stores that token in the session.
C12_TokenWhateverTheShape ==
    (LastIs("authenticate") /\ Truthy(CarriedToken(last.r)))
       => /\ last.s.token = CarriedToken(last.r)
          /\ sess["A"].token = CarriedToken(last.r)

\* the identity service answered that the username is taken
AlreadyExists(r) ==
    /\ HasJson(r) /\ IsDict(r.body)
    /\ \/ Get1(r.body, "message") = JStr("username already exists")
       \/ /\ IsDict(Get1(r.body, "result"))
          /\ Get1(Get1(r.body, "result"), "message") = JStr("username already exists")

\* C13 as stated: a registration that fails because the username already
\* exists is not fatal: the workflow does not abort and goes on to
\* authenticate with the same credential.
C13_ExistingUsernameNotFatal ==
    (LastIs("register_avatar") /\ AlreadyExists(last.r))
       => /\ ~Exited
          /\ pc \in {"authenticate-A", "authenticate-B"}

\* C14: create_solana_wallet invoked on a session whose token or agent
\* identifier is null issues no remote call, returns a failure value and
\* leaves the session's token, agent identifier and wallet address unchanged.
C14_CreateWalletPrecondition ==
    (LastIs("create_solana_wallet")
        /\ (last.pre.token = Null \/ last.pre.avatar_id = Null))
       => /\ \A i \in 1..Len(last.ev) : last.ev[i].ev # "req"
          /\ ~last.raised
          /\ ~Truthy(last.ret)
          /\ last.s = last.pre
          /\ sess["A"] = last.pre

\* create_solana_wallet was invoked on a session that holds a token and a
\* wallet address but no agent identifier
C14_Witness ==
    /\ LastIs("create_solana_wallet")
    /\ last.pre.token = JWT /\ last.pre.avatar_id = Null
    /\ last.pre.wallet_address = WalletOf("A")

\* the steps of main that come after Agent a's wallet step
PastWallet(a) ==
    pc \notin {"connect", "register-A", "authenticate-A", "wallet-A", "wallets-A"}
              \cup (IF a = "B" THEN {"capabilities", "register-B", "authenticate-B",
                                     "wallet-B", "wallets-B"}
                    ELSE {})

\* C15 as stated: whenever a payment workflow proceeds past the wallet step of
\* an agent, that agent's session wallet address is non-null.
C15_WalletAfterCreation ==
    \A a \in {"A", "B"} : PastWallet(a) => sess[a].wallet_address # Null

\* C16 as stated: every capability advertisement submitted has pricing keys
\* that are a subset of its services; a call whose pricing names an undeclared
\* service sends nothing.
C16_PricingSubsetOfServices ==
    \A i \in Reqs(trace, "a2a/agent/capabilities") :
       DOMAIN trace[i].y.o \subseteq {trace[i].x.l[k].s : k \in 1..Len(trace[i].x.l)}

\* the latest invocation was of a discovery method
LastIsDiscovery ==
    LastIs("discover_agents_by_service") \/ LastIs("discover_all_agents_via_serv")

\* the endpoints that take a bearer token
AuthenticatedEndpoints ==
    {"a2a/agent/capabilities", "a2a/agent/register-service", "a2a/jsonrpc", "a2a/messages",
     "wallet/create-wallet", "wallet/wallets", "solana/send"}

\* the client methods that call them
AuthenticatedOperations ==
    {"register_capabilities", "register_as_serv_service", "send_a2a_payment_request",
     "get_pending_messages", "create_solana_wallet", "get_wallets", "send_solana_payment"}

\* C17 as stated: no request to an authenticated endpoint is sent without a
\* non-null bearer token: an operation invoked on an unauthenticated session
\* issues no request and returns a failure or empty value.
C17_NoRequestWithoutToken ==
    (last.ev # <<>> /\ last.pre.token = Null) =>
       /\ \A i \in 1..Len(last.ev) :
             last.ev[i].ev = "req" => last.ev[i].op \notin AuthenticatedEndpoints
       /\ last.ev[1].op \in AuthenticatedOperations => ~last.raised /\ ~Truthy(last.ret)

\* C18 as stated: for every list L of agent descriptors discovery returns L,
\* both when the registry answers with the bare array L and when it answers
\* with the envelope {"$values": L}.
C18_BothShapesNormalized ==
    (LastIsDiscovery /\ last.r.status = 200 /\ HasJson(last.r)) =>
       /\ IsList(last.r.body) => last.ret = last.r.body
       /\ (IsDict(last.r.body) /\ IsList(Get1(last.r.body, "$values")))
             => last.ret = Get1(last.r.body, "$values")

\* C19 as stated: when no agent matches, findByService returns an empty
\* sequence, and the zero-match outcome is logged as a result, not raised and
\* not reported as a failure of the call.
C19_ZeroMatchIsNoError ==
    (/\ LastIs("discover_agents_by_service")
     /\ last.r.status = 200
     /\ last.r.body \in {EmptyList, Enveloped(EmptyList)})
       => /\ ~last.raised
          /\ last.ret = EmptyList
          /\ last.ev[Len(last.ev)] = Log("found-agents", "A")

\* positions of the JSON-RPC posts, and where send_a2a_payment_request is entered
RpcPosts(tr) == Reqs(tr, "a2a/jsonrpc")
RpcInvocations(tr) == At(tr, "invoke", "send_a2a_payment_request")

\* C20: send_a2a_payment_request is never retried: every invocation issues
\* exactly one JSON-RPC post, and when the remote answers with a JSON-RPC error
\* object the caller gets the failure value and a log line, and the message is
\* not posted again.
C20_PaymentRequestNotRetried ==
    /\ \A i \in RpcInvocations(trace) :
          /\ i < Len(trace) /\ trace[i + 1].ev = "req" /\ trace[i + 1].op = "a2a/jsonrpc"
          /\ \A j \in RpcPosts(trace) :
                j > i + 1 => \E k \in RpcInvocations(trace) : i < k /\ k < j
    /\ \A i, j \in RpcPosts(trace) : trace[i].y = trace[j].y => i = j
    /\ (LastIs("send_a2a_payment_request") /\ HasJson(last.r)
           /\ Truthy(Get(last.r.body, "error", Null))
           /\ ~Truthy(Get(last.r.body, "result", Null)))
          => /\ last.ret = Null /\ ~last.raised
             /\ Cardinality(RpcPosts(last.ev)) = 1
             /\ last.ev[Len(last.ev)] = Log("payment-request-failed", "B")

\* the payment request was answered with a JSON-RPC error object and main went
\* on to the poll
C20_Witness ==
    /\ wf = "integrated" /\ pc = "poll"
    /\ LastIs("send_a2a_payment_request")
    /\ Truthy(Get(last.r.body, "error", Null))
    /\ last.ret = Null

-----------------------------------------------------------------------------
(* Amounts in minor units.                                                  *)

\* round(amount_sol * LAMPORTS_PER_SOL), as Python rounds: to the nearest
\* lamport, a half to the even one
Rounded(amount_sol) ==
    LET whole == amount_sol.tenths \div 10
        rest  == amount_sol.tenths % 10
    IN  amount_sol.sol * LAMPORTS_PER_SOL + whole
           + (IF rest > 5 \/ (rest = 5 /\ whole % 2 = 1) THEN 1 ELSE 0)

\* the amount the latest send_solana_payment was given, and the one it submitted
Given(ev) == ev[1].n
Submitted(ev) == ev[CHOOSE i \in Sends(ev) : TRUE].n.n

\* C21 as stated: for every amount a in SOL passed to a transfer, the amount
\* submitted in minor units equals round(a * 1_000_000_000).
C21_SubmitsRounded ==
    (LastIs("send_solana_payment") /\ Sends(last.ev) # {})
       => Submitted(last.ev) = Rounded(Given(last.ev))

\* C22: the conversion is monotonic: of two transfers, the one given the
\* smaller amount in SOL submits no more lamports than the other.
C22_Monotonic ==
    \A i, j \in Sends(trace) :
       LET a == trace[CHOOSE k \in SendInvocations(trace) :
                         k < i /\ \A m \in SendInvocations(trace) : m < i => m <= k].n
           b == trace[CHOOSE k \in SendInvocations(trace) :
                         k < j /\ \A m \in SendInvocations(trace) : m < j => m <= k].n
       IN  (a.sol < b.sol \/ (a.sol = b.sol /\ a.tenths <= b.tenths))
              => trace[i].n.n <= trace[j].n.n

\* two transfers were submitted, the first of less than the second, one of
\* them between two lamports
C22_Witness ==
    \E i, j \in Sends(trace) :
       /\ i < j
       /\ trace[i].n.n = 1 /\ trace[j].n.n > LAMPORTS_PER_SOL

-----------------------------------------------------------------------------
(* Failures and what is printed about them.                                 *)

\* the remote call failed: no response, a status that is not 2xx, isError at
\* some level of the envelope, or a JSON-RPC error object
Failed(r) ==
    \/ r.body.t = "exc"
    \/ r.status \notin 200..299
    \/ HasJson(r) /\ AnyIsError(r.body)
    \/ HasJson(r) /\ IsDict(r.body) /\ Truthy(Get(r.body, "error", Null))

\* C23 as stated: every remote call that fails produces at least one log line:
\* after the request of a failed call the operation prints a line (or raises,
\* and the driver prints the exception).
C23_NoSilentFailure ==
    LET reqs == {i \in 1..Len(last.ev) : last.ev[i].ev = "req"} IN
    (reqs # {} /\ Failed(last.r)) =>
       \/ last.raised
       \/ \E j \in 1..Len(last.ev) :
             /\ last.ev[j].ev = "log"
             /\ \A i \in reqs : i < j

\* C24 as stated: when a REQUIRED step fails the workflow emits, before it
\* terminates in Aborted, a summary of the steps that succeeded.
C24_SummaryBeforeAbort ==
    (Exited /\ Logs(trace, "authenticated") # {}) => Logs(trace, "summary") # {}

\* C25 as stated: a response whose body is not valid JSON never crashes a
\* client operation: no exception escapes from the operation.
C25_NoCrashOnInvalidJson ==
    (last.ev # <<>> /\ last.r.body = Invalid
        /\ \E i \in 1..Len(last.ev) : last.ev[i].ev = "req")
       => ~last.raised

\* C28 as stated: the session fields of an actor are changed only by an
\* operation invoked on that session: a step that changes an actor's session
\* is an invocation by that actor, and leaves the session as the operation
\* left it.
C28_OnlyOwnOperations ==
    [][\A a \in Actors :
          sess'[a] # sess[a] =>
             /\ last'.ev # <<>> /\ last'.ev[1].by = a
             /\ last'.pre = sess[a]
             /\ last'.s = sess'[a]]_vars

\* C29: every workflow run terminates: it reaches the end of the summary or
\* exits with a failure.
C29_Terminates == <>(exitCode # -1)

\* a run that came to its summary after the retry of the discovery
C29_Witness ==
    /\ Done
    /\ Cardinality(Queries(trace)) = 2

\* positions of the transfers the admin submits, and of the others
FundingSends(tr) == {i \in Sends(tr) : tr[i].by = "admin"}
PaymentSends(tr) == {i \in Sends(tr) : tr[i].by # "admin"}

\* C30: whenever a funding transfer has been submitted, the 30 s settle wait
\* lies between the last funding transfer and the payment transfer.
C30_SettleBeforePayment ==
    \A f \in FundingSends(trace), p \in PaymentSends(trace) :
       /\ f < p
       /\ \E w \in f..p : trace[w] = Sleep(30)

\* both funding transfers and the payment were submitted
C30_Witness ==
    /\ Cardinality(FundingSends(trace)) = 2
    /\ PaymentSends(trace) # {}

\* the requests of the trace that carry no value where an optional value goes:
\* a registration without an API key, a card or a workflow without an agent id
Valueless(tr) ==
    { i \in Reqs(tr, "a2a/openserv/register") : tr[i].y = Null }
        \cup { i \in Reqs(tr, "a2a/agent-card") \cup Reqs(tr, "a2a/workflow/execute") :
                 tr[i].x = Null }

\* the steps of the OpenSERV demo that were left out without a warning: no
\* request of the step and no warning in a run that reached its summary
SilentSkips(tr) ==
    { op \in {"a2a/agent-card", "a2a/workflow/execute"} :
        Reqs(tr, op) = {}
        /\ Logs(tr, "warning-no-target-agent") = {} }

\* C26: when an optional configuration value is absent, the step that depends
\* on it is skipped with a warning and issues no request, and the run still
\* completes normally: no request goes out without the value, a run that
\* reached its end warned about every step it left out, and a failing exit
\* comes from a failed authentication or a malformed answer, never from the
\* missing value.
C26_AbsentValueSkipsWithWarning ==
    (wf = "openserv" /\ (given.TO_AGENT_ID = Null \/ given.OPENSERV_API_KEY = Null)) =>
        /\ Valueless(trace) = {}
        /\ Done => SilentSkips(trace) = {}
        /\ Exited => Logs(trace, "authentication-failed") \cup Logs(trace, "traceback") # {}

\* Agent a's sequence run on its own, from a new session
Alone(a) == Provision(wf, a, "register", NewSession, given[a])

\* what the order of main leaves of Agent a's session: Agent B's sequence is
\* not begun when Agent A's has aborted
InOrder(a) ==
    IF a = "B" /\ Alone("A").at = "aborted" THEN NewSession ELSE Alone(a).s

\* the order of main goes on to the next step of the workflow
InOrderContinues == \A a \in Agents : Alone(a).at = "ready"

\* both tasks are over, or the process has exited
ProvisioningEnded == exitCode = 1 \/ \A a \in Agents : pc[a] = "ready"

RequestsOf(tr, a) == {i \in 1..Len(tr) : tr[i].ev = "req" /\ tr[i].by = a}

-----------------------------------------------------------------------------
(* The wallet fallback, the confirmation, and what depends on what.         *)

\* the invocations of method op on Agent a's client
InvocationsBy(tr, op, a) == {i \in At(tr, "invoke", op) : tr[i].by = a}

\* C31: in the Solana payment workflow get_wallets is invoked at most once per
\* agent, after create_solana_wallet returned and on a session that has no
\* wallet address; a session left without an address by the fallback ends the
\* run, and a session that create_solana_wallet gave an address does not go to
\* the fallback.
C31_OneFallback ==
    wf = "solana" =>
      \A a \in {"A", "B"} :
        /\ Cardinality(InvocationsBy(trace, "get_wallets", a)) <= 1
        /\ \A i \in InvocationsBy(trace, "get_wallets", a) :
              \E j \in InvocationsBy(trace, "create_solana_wallet", a) : j < i
        /\ (LastIs("get_wallets") /\ last.ev[1].by = a) =>
              /\ ~Truthy(last.pre.wallet_address)
              /\ ~Truthy(last.s.wallet_address) => Exited
        /\ (LastIs("create_solana_wallet") /\ last.ev[1].by = a
               /\ Truthy(last.s.wallet_address)) =>
              /\ pc # "wallets-" \o a
              /\ InvocationsBy(trace, "get_wallets", a) = {}

\* a Solana run that got Agent A's address from the fallback and came to its end
C31_Witness ==
    /\ wf = "solana"
    /\ Done
    /\ InvocationsBy(trace, "get_wallets", "A") # {}
    /\ InvocationsBy(trace, "get_wallets", "B") = {}

\* C36: any two JSON-RPC messages sent in the same run carry distinct
\* correlation ids: the payment request and the confirmation never share one.
C36_DistinctCorrelationIds ==
    \A i, j \in Reqs(trace, "a2a/jsonrpc") : i # j => trace[i].n # trace[j].n

\* the payment request and the confirmation were both sent
C36_Witness == Cardinality(Reqs(trace, "a2a/jsonrpc")) = 2

\* the JSON-RPC messages posted after the payment transfer was invoked
Confirmations(tr) ==
    { i \in Reqs(tr, "a2a/jsonrpc") :
        \E p \in InvocationsBy(tr, "send_solana_payment", "B") : p < i }

\* C32: the confirmation message is sent if and only if the payment transfer
\* returned a transaction hash; it is sent after the transfer, at most once,
\* and its content names that hash.
C32_ConfirmationIffHash ==
    wf = "integrated" =>
      /\ Cardinality(Confirmations(trace)) <= 1
      /\ \A i \in Confirmations(trace) :
            /\ Truthy(tx_hash)
            /\ trace[i].y = JStr("payment-confirmed:" \o tx_hash.s)
            /\ trace[i].x = sess["A"].avatar_id
      /\ \A i \in Reqs(trace, "a2a/jsonrpc") \ Confirmations(trace) :
            /\ trace[i].y = JStr("payment-request")
            /\ InvocationsBy(trace, "send_solana_payment", "B") # {} =>
                  \A p \in InvocationsBy(trace, "send_solana_payment", "B") : i < p
      /\ (pc \in {"summary", "done"} /\ Truthy(tx_hash)) => Confirmations(trace) # {}
      /\ (pc \in {"summary", "done"} /\ ~Truthy(tx_hash)) => Confirmations(trace) = {}

\* a run that sent the confirmation and came to its end
C32_Witness == Done /\ Confirmations(trace) # {}

\* C33 as stated: in the integrated workflow the payment transfer is attempted
\* whether or not the payment request was accepted and whether or not the poll
\* returned it: a run in which the payment request was sent does not end
\* before the transfer is attempted.
C33_TransferAttemptedRegardless ==
    (wf = "integrated" /\ exitCode # -1
        /\ InvocationsBy(trace, "send_a2a_payment_request", "B") # {})
       => InvocationsBy(trace, "send_solana_payment", "B") # {}

-----------------------------------------------------------------------------
(* What an operation leaves of the session.                                 *)

\* C34 as stated: a session's agent identifier, once it is not null, stays as
\* it is through every later operation on the session.
C34_IdentifierKept ==
    [][\A a \in Actors :
          sess[a].avatar_id # Null => sess'[a].avatar_id = sess[a].avatar_id]_vars

\* C35 as stated: a failed authenticate leaves the session unchanged: when
\* authenticate returns failure, the token, the agent identifier and the
\* username are what they were before the call.
C35_FailedAuthenticateKeepsSession ==
    (LastIs("authenticate") /\ ~last.raised /\ ~Truthy(last.ret)) =>
        /\ last.s.token = last.pre.token
        /\ last.s.avatar_id = last.pre.avatar_id
        /\ last.s.username = last.pre.username

\* C37 as stated: the summary of the Solana payment workflow reports an agent
\* wallet as funded only if the funding transfer to that wallet returned a
\* transaction hash.
C37_FundedOnlyIfFunded ==
    wf = "solana" =>
      \A a \in {"A", "B"} :
        Logs(trace, "summary-funded-" \o a) # {} => Logs(trace, "funded-" \o a) # {}

\* C38 as stated: in the OpenSERV workflow demo get_agent_card and
\* execute_workflow are never invoked with a null agent identifier.
C38_NoNullAgentId ==
    wf = "openserv" =>
      \A i \in Reqs(trace, "a2a/agent-card") \cup Reqs(trace, "a2a/workflow/execute") :
         trace[i].x # Null

\* C39 as stated, for the integrated payment workflow: a failed capability
\* publication for Agent A does not abort the run, which goes on to provision
\* Agent B.
C39_FailedPublicationGoesOn ==
    (wf = "integrated" /\ LastIs("register_capabilities")
        /\ (last.raised \/ ~Truthy(last.ret)))
       => (exitCode = -1 /\ pc = "register-B")

====
